---- MODULE Spec2Model ----
(***************************************************************************)
(* A model of the xai-go client core: the streaming iterators              *)
(* (ChunkStream / SampleStream), the ChatRequest builder and its Build,    *)
(* the deferred-completion poll loop (GetDeferred / WaitForDeferred) and   *)
(* the error translation (FromGRPCError).                                  *)
(*                                                                         *)
(* The specifications share the module, one per component:                 *)
(*   SpecStream     - pulls on open streams against a transport            *)
(*   SpecStreamPair - Next, Err and Close on the two ChunkStreams          *)
(*   SpecBuild      - builder calls interleaved with Build                 *)
(*   SpecTurns      - the builders of a chained conversation               *)
(*   SpecOrder      - message appends and setters in every order           *)
(*   SpecWait       - one WaitForDeferred call against a remote service,   *)
(*                    a wall clock and the caller's context                *)
(*   SpecWaitLive   - SpecWait with the fairness of its scheduling         *)
(*   SpecErrors     - FromGRPCError, IsRetryable and Is, one call each     *)
(*   SpecTools      - toolCallFromProto and IsClientSideTool               *)
(*   SpecTimeout    - the deadline of a blocking operation                 *)
(*   SpecBoundary   - one use of the client at the transport boundary      *)
(*   SpecCredential - GetRequestMetadata against Client.Close              *)
(*   SpecSecure     - the methods of SecureString under its RWMutex        *)
(***************************************************************************)
EXTENDS Integers, Sequences, FiniteSets, TLC

VARIABLES
    streams,    \* stream id -> [stream: transport state, err: s.err]
    rets,       \* stream id -> what each Next call returned, in call order
    r,          \* the ChatRequest builder (its fields)
    heap,       \* the backing arrays of the builder's slices, by address
    built,      \* the requests Build has returned, in call order
    calls,      \* the builder calls made so far, in call order
    pc,         \* where WaitForDeferred is: idle, loop, poll, wait, done
    now,        \* the wall clock, in units since WaitForDeferred was called
    deadline,   \* WaitForDeferred's deadline: the clock at the call + timeout
    pollInterval, \* WaitForDeferred's pollInterval argument
    pollAt,     \* when the GetDeferred call in flight was issued
    timerAt,    \* when the time.After timer of the current wait fires
    ctxErr,     \* ctx.Err() of the caller's context: Nil while it is not done
    ctxDoneIn,  \* where WaitForDeferred was when the context became done
    remote,     \* the deferred completion as the service holds it
    polled,     \* what each GetDeferred call of the loop returned, in order
    ret,        \* what WaitForDeferred returned: [resp, err]
    returnedAt, \* the line of chat.go whose return statement returned it
    call,       \* the last call of a function without state: [op, ..., result]
    builders,   \* the number of builders NewChatRequest has made
    apiKey,     \* the SecureString the client and its bearerAuth share
    authPc,     \* where each GetRequestMetadata call is: idle, checked, done
    authRet,    \* what each GetRequestMetadata call returned: [md, err]
    secure,     \* a SecureString: its bytes, whether value is nil, and its mu
    secCalls    \* the call each goroutine makes on it: [pc, op, i, result, ...]

streamVars == <<streams, rets>>

buildVars == <<r, heap, built, calls>>

waitVars ==
    <<pc, now, deadline, pollInterval, pollAt, timerAt, ctxErr, ctxDoneIn,
      remote, polled, ret, returnedAt>>

credVars == <<apiKey, authPc, authRet>>

secVars == <<secure, secCalls>>

restVars == <<call, builders, apiKey, authPc, authRet, secure, secCalls>>

vars ==
    <<streams, rets, r, heap, built, calls, pc, now, deadline, pollInterval,
      pollAt, timerAt, ctxErr, ctxDoneIn, remote, polled, ret, returnedAt, call,
      builders, apiKey, authPc, authRet, secure, secCalls>>

(***************************************************************************)
(* Bounds                                                                  *)
(***************************************************************************)
\* Total number of Next calls over all streams.
MaxPulls == 4

\* Number of builder (mutator) calls.
MaxCalls == 2

\* Number of Build calls.
MaxBuilds == 2

\* Spare capacity (in elements) that append may leave in a fresh array.
MaxSpare == 1

\* Largest timeout WaitForDeferred is called with, in clock units.
MaxTimeout == 4

\* Largest pollInterval WaitForDeferred is called with, in clock units.
MaxInterval == 2

\* Longest time one GetDeferred call takes, in clock units.
MaxPollTime == 2

(***************************************************************************)
(* Go values                                                               *)
(***************************************************************************)
\* nil (error, pointer or chunk)
Nil == [type |-> "nil"]

\* io.EOF
EOF == [type |-> "io.EOF"]

\* an error made by status.Error(code, msg) of the transport
StatusErr(c, m) == [type |-> "grpc.status", code |-> c, msg |-> m]

\* an error that carries no transport status (errors.New)
PlainErr(m) == [type |-> "plain", msg |-> m]

\* context.Canceled and context.DeadlineExceeded: plain error values of
\* package context, without a GRPCStatus method
ContextCanceled == [type |-> "context", msg |-> "context canceled"]

ContextDeadlineExceeded == [type |-> "context", msg |-> "context deadline exceeded"]

\* the codes of google.golang.org/grpc/codes that a non-nil status can carry
GRPCCodes ==
    {"Canceled", "Unknown", "InvalidArgument", "DeadlineExceeded", "NotFound",
     "AlreadyExists", "PermissionDenied", "ResourceExhausted",
     "FailedPrecondition", "Aborted", "OutOfRange", "Unimplemented",
     "Internal", "Unavailable", "DataLoss", "Unauthenticated"}

\* the closed taxonomy of errors.go
ErrorCodes ==
    {"ErrUnknown", "ErrAuth", "ErrRateLimit", "ErrInvalidRequest", "ErrNotFound",
     "ErrServerError", "ErrUnavailable", "ErrTimeout", "ErrCanceled",
     "ErrResourceExhausted"}

\* &Error{...}; GRPCCode "OK" is the zero value of codes.Code, and RetryAfter
\* is left at its zero value by every constructor of the package
XaiError(code, message, cause, grpcCode) ==
    [type |-> "xai.Error", Code |-> code, Message |-> message, Cause |-> cause,
     RetryAfter |-> 0, GRPCCode |-> grpcCode]

IsXaiError(e) == e.type = "xai.Error"

\* status.FromError: ok only for an error that carries a transport status
statusFromErrorOk(e) == e.type = "grpc.status"

\* a switch of FromGRPCError without the case codes.Aborted
codeOfStatusNoAborted(c) ==
    IF c = "Aborted" THEN "ErrUnknown" ELSE
    CASE c \in {"Unauthenticated", "PermissionDenied"} -> "ErrAuth"
      [] c = "ResourceExhausted" -> "ErrRateLimit"
      [] c \in {"InvalidArgument", "FailedPrecondition", "OutOfRange",
                "Unimplemented"} -> "ErrInvalidRequest"
      [] c = "NotFound" -> "ErrNotFound"
      [] c \in {"Internal", "DataLoss"} -> "ErrServerError"
      [] c = "Unavailable" -> "ErrUnavailable"
      [] c = "DeadlineExceeded" -> "ErrTimeout"
      [] c = "Canceled" -> "ErrCanceled"
      [] OTHER -> "ErrUnknown"

\* the kind FromGRPCError's switch assigns to a status code
codeOfStatus(c) ==
    CASE c = "Unauthenticated"    -> "ErrAuth"
      [] c = "PermissionDenied"   -> "ErrAuth"
      [] c = "ResourceExhausted"  -> "ErrRateLimit"
      [] c = "InvalidArgument"    -> "ErrInvalidRequest"
      [] c = "NotFound"           -> "ErrNotFound"
      [] c = "Internal"           -> "ErrServerError"
      [] c = "Unavailable"        -> "ErrUnavailable"
      [] c = "DeadlineExceeded"   -> "ErrTimeout"
      [] c = "Canceled"           -> "ErrCanceled"
      [] c = "FailedPrecondition" -> "ErrInvalidRequest"
      [] c = "Aborted"            -> "ErrUnavailable"
      [] c = "OutOfRange"         -> "ErrInvalidRequest"
      [] c = "Unimplemented"      -> "ErrInvalidRequest"
      [] c = "DataLoss"           -> "ErrServerError"
      [] OTHER                    -> "ErrUnknown"

\* the message FromGRPCError's switch leaves in the error
messageOfStatus(c, m) ==
    CASE c = "Unauthenticated"   -> "authentication failed: " \o m
      [] c = "PermissionDenied"  -> "permission denied: " \o m
      [] c = "ResourceExhausted" -> "rate limit exceeded: " \o m
      [] c = "Unimplemented"     -> "method not implemented: " \o m
      [] OTHER                   -> m

\* a translation that hands back an error without a transport status as it is
FromGRPCErrorStatusOnly(e) ==
    IF e = Nil THEN Nil
    ELSE IF ~statusFromErrorOk(e) THEN e
    ELSE XaiError(codeOfStatus(e.code), messageOfStatus(e.code, e.msg), e, e.code)

\* FromGRPCError: nil for nil, ErrUnknown for an error without a transport
\* status, and the kind of the switch otherwise
FromGRPCError(e) ==
    IF e = Nil THEN Nil
    ELSE IF ~statusFromErrorOk(e) THEN XaiError("ErrUnknown", e.msg, e, "OK")
    ELSE XaiError(codeOfStatus(e.code), messageOfStatus(e.code, e.msg), e, e.code)

(***************************************************************************)
(* Tool calls: toolCallFromProto, IsClientSide, IsServerSide               *)
(***************************************************************************)
\* the v1.ToolCallType values the switch of toolCallFromProto names as
\* executed by the service
ServerSideTypes ==
    {"TOOL_CALL_TYPE_WEB_SEARCH_TOOL", "TOOL_CALL_TYPE_X_SEARCH_TOOL",
     "TOOL_CALL_TYPE_CODE_EXECUTION_TOOL", "TOOL_CALL_TYPE_COLLECTIONS_SEARCH_TOOL",
     "TOOL_CALL_TYPE_MCP_TOOL", "TOOL_CALL_TYPE_ATTACHMENT_SEARCH_TOOL"}

\* every value tc.GetType() can return: the client-side type, the types
\* above, the zero value of an unset field, and a number without a name
ToolCallTypes ==
    ServerSideTypes \cup {"TOOL_CALL_TYPE_CLIENT_SIDE_TOOL", "TOOL_CALL_TYPE_INVALID",
                          "ToolCallType(99)"}

\* the values tc.GetStatus() can return: the two the switch names, the zero
\* value, and a number without a name
ToolCallStatuses ==
    {"TOOL_CALL_STATUS_COMPLETED", "TOOL_CALL_STATUS_FAILED",
     "TOOL_CALL_STATUS_IN_PROGRESS", "ToolCallStatus(99)"}

\* a raw *v1.ToolCall
RawToolCall(id, type, status, errorMessage, function) ==
    [id |-> id, type |-> type, status |-> status, error_message |-> errorMessage,
     function |-> function]

\* a *string that is set (the optional field error_message)
StringPtr(v) == [type |-> "ptr", value |-> v]

\* a raw *v1.FunctionCall
RawFunction(name, arguments) == [name |-> name, arguments |-> arguments]

\* a conversion whose default case classifies the call as executed by the service
toolCallFromProtoDefaultServer(tc) ==
    IF tc = Nil THEN Nil
    ELSE [ID |-> tc.id,
          Type |-> IF tc.type = "TOOL_CALL_TYPE_CLIENT_SIDE_TOOL"
                   THEN "ToolCallTypeClient" ELSE "ToolCallTypeServer",
          Status |-> CASE tc.status = "TOOL_CALL_STATUS_COMPLETED" -> "ToolCallStatusCompleted"
                       [] tc.status = "TOOL_CALL_STATUS_FAILED" -> "ToolCallStatusFailed"
                       [] OTHER -> "ToolCallStatusPending",
          ErrorMessage |-> IF tc.error_message # Nil THEN tc.error_message.value ELSE "",
          Function |-> IF tc.function # Nil
                       THEN [Name |-> tc.function.name,
                             Arguments |-> tc.function.arguments]
                       ELSE Nil]

\* toolCallFromProto: the *ToolCallInfo made of a raw tool call
toolCallFromProto(tc) ==
    IF tc = Nil THEN Nil
    ELSE [ID |-> tc.id,
          Type |-> CASE tc.type = "TOOL_CALL_TYPE_CLIENT_SIDE_TOOL" -> "ToolCallTypeClient"
                     [] tc.type \in ServerSideTypes -> "ToolCallTypeServer"
                     [] OTHER -> "ToolCallTypeClient",
          Status |-> CASE tc.status = "TOOL_CALL_STATUS_COMPLETED" -> "ToolCallStatusCompleted"
                       [] tc.status = "TOOL_CALL_STATUS_FAILED" -> "ToolCallStatusFailed"
                       [] OTHER -> "ToolCallStatusPending",
          ErrorMessage |-> IF tc.error_message # Nil THEN tc.error_message.value ELSE "",
          Function |-> IF tc.function # Nil
                       THEN [Name |-> tc.function.name,
                             Arguments |-> tc.function.arguments]
                       ELSE Nil]

\* (tc *ToolCallInfo) IsClientSide()
IsClientSide(tc) == tc.Type = "ToolCallTypeClient"

\* (tc *ToolCallInfo) IsServerSide()
IsServerSide(tc) == tc.Type = "ToolCallTypeServer"

(***************************************************************************)
(* Streaming: raw fragments, chunkFromProto, ChunkStream, SampleStream     *)
(***************************************************************************)
finishReasonFromProto(x) ==
    CASE x = "REASON_STOP"        -> "stop"
      [] x = "REASON_MAX_LEN"     -> "length"
      [] x = "REASON_MAX_CONTEXT" -> "length"
      [] x = "REASON_TOOL_CALLS"  -> "tool_calls"
      [] OTHER                    -> ""

\* raw v1.GetChatCompletionChunk values the transport can deliver
Frag1 ==
    [type |-> "chunk", id |-> "resp-1", model |-> "grok",
     outputs |-> << [delta |-> [content |-> "Hel", tool_calls |-> << >>],
                     finish_reason |-> "REASON_INVALID"] >>]

Frag2 ==
    [type |-> "chunk", id |-> "resp-1", model |-> "grok",
     outputs |-> << [delta |-> [content |-> "lo", tool_calls |-> << >>],
                     finish_reason |-> "REASON_STOP"],
                    [delta |-> [content |-> "alt", tool_calls |-> << >>],
                     finish_reason |-> "REASON_MAX_LEN"] >>]

Frag3 ==
    [type |-> "chunk", id |-> "resp-1", model |-> "grok",
     outputs |-> << [delta |-> Nil, finish_reason |-> "REASON_TOOL_CALLS"] >>]

\* two fragments that reference one tool call: pending with a part of the
\* arguments, then completed with all of them
PartialArguments == "{\"a\":"

FullArguments == "{\"a\":1,\"b\":2}"

ToolFrag1 ==
    [type |-> "chunk", id |-> "resp-1", model |-> "grok",
     outputs |-> << [delta |->
                        [content |-> "",
                         tool_calls |->
                            << RawToolCall("tc_1", "TOOL_CALL_TYPE_CLIENT_SIDE_TOOL",
                                           "TOOL_CALL_STATUS_IN_PROGRESS", Nil,
                                           RawFunction("get_weather", PartialArguments)) >>],
                     finish_reason |-> "REASON_INVALID"] >>]

ToolFrag2 ==
    [type |-> "chunk", id |-> "resp-1", model |-> "grok",
     outputs |-> << [delta |->
                        [content |-> "",
                         tool_calls |->
                            << RawToolCall("tc_1", "TOOL_CALL_TYPE_CLIENT_SIDE_TOOL",
                                           "TOOL_CALL_STATUS_COMPLETED", Nil,
                                           RawFunction("get_weather", FullArguments)) >>],
                     finish_reason |-> "REASON_TOOL_CALLS"] >>]

Fragments == {Frag1, Frag2, Frag3, ToolFrag1, ToolFrag2}

\* raw v1.SampleTextResponse values
Sample1 ==
    [type |-> "sample", model |-> "grok",
     choices |-> << [text |-> "a", finish_reason |-> "REASON_INVALID", index |-> 0] >>]

Sample2 ==
    [type |-> "sample", model |-> "grok",
     choices |-> << [text |-> "b", finish_reason |-> "REASON_STOP", index |-> 0],
                    [text |-> "c", finish_reason |-> "REASON_MAX_LEN", index |-> 1] >>]

Samples == {Sample1, Sample2}

\* the failures Recv can report
RecvErrors == {StatusErr("Unavailable", "down"), PlainErr("broken pipe")}

chunkFromProto(chunk) ==
    LET base == [type |-> "ChatChunk", ID |-> chunk.id, Model |-> chunk.model,
                 Delta |-> "", ToolCalls |-> << >>, FinishReason |-> ""]
    IN  IF Len(chunk.outputs) > 0
        THEN LET output == chunk.outputs[1]
                 withReason ==
                     [base EXCEPT !.FinishReason =
                                      finishReasonFromProto(output.finish_reason)]
             IN  IF output.delta # Nil
                 THEN [withReason EXCEPT
                          !.Delta = output.delta.content,
                          !.ToolCalls =
                              [i \in 1..Len(output.delta.tool_calls) |->
                                  toolCallFromProto(output.delta.tool_calls[i])]]
                 ELSE withReason
        ELSE base

sampleResponseFromProto(resp) ==
    [type |-> "SampleResponse", Model |-> resp.model,
     Outputs |-> [i \in 1..Len(resp.choices) |->
                     [Text |-> resp.choices[i].text,
                      FinishReason |-> finishReasonFromProto(resp.choices[i].finish_reason),
                      Index |-> resp.choices[i].index]]]

ChunkIds == {"chunk1", "chunk2"}

SampleIds == {"sample1"}

StreamIds == ChunkIds \cup SampleIds

\* &ChunkStream{stream: stream} / &SampleStream{stream: stream}: an open
\* transport stream that has delivered nothing, and no stored error
NewStream == [stream |-> [ended |-> FALSE, recvd |-> << >>], err |-> Nil]

Pulls == Len(rets["chunk1"]) + Len(rets["chunk2"]) + Len(rets["sample1"])

\* what s.stream.Recv() can return: once the transport has reported the end
\* of the stream it reports it again; before, a message, a failure or the end
RecvResults(s, msgs) ==
    IF streams[s].stream.ended THEN {EOF} ELSE msgs \cup RecvErrors \cup {EOF}

\* the transport after Recv returned res
AfterRecv(s, res) ==
    [ended |-> streams[s].stream.ended \/ res = EOF,
     recvd |-> Append(streams[s].stream.recvd, res)]

\* one return of Next: the value, the error, and the number of Recv calls
\* made on the transport so far
Ret(s, value, e, st) ==
    Append(rets[s], [value |-> value, err |-> e, recvs |-> Len(st.recvd)])

\* the conversion of a received message: chunkFromProto in ChunkStream.Next,
\* sampleResponseFromProto in SampleStream.Next
fromProto(kind, msg) ==
    IF kind = "chunk" THEN chunkFromProto(msg) ELSE sampleResponseFromProto(msg)

\* The body shared by ChunkStream.Next and SampleStream.Next.
StreamNext(s, msgs, kind) ==
    /\ Pulls < MaxPulls
    /\ UNCHANGED <<buildVars, waitVars, restVars>>
    /\ IF streams[s].err # Nil
       THEN /\ rets' = [rets EXCEPT ![s] = Ret(s, Nil, streams[s].err, streams[s].stream)]
            /\ UNCHANGED streams
       ELSE \E res \in RecvResults(s, msgs) :
              LET st == AfterRecv(s, res)
              IN  IF res = EOF
                  THEN /\ streams' = [streams EXCEPT ![s].stream = st]
                       /\ rets' = [rets EXCEPT ![s] = Ret(s, Nil, EOF, st)]
                  ELSE IF res \in RecvErrors
                  THEN /\ streams' = [streams EXCEPT ![s].stream = st,
                                                     ![s].err = FromGRPCError(res)]
                       /\ rets' = [rets EXCEPT ![s] = Ret(s, Nil, FromGRPCError(res), st)]
                  ELSE /\ streams' = [streams EXCEPT ![s].stream = st]
                       /\ rets' = [rets EXCEPT ![s] = Ret(s, fromProto(kind, res), Nil, st)]

\* a Next that does not consult the stored error before receiving
StreamNextNotSticky(s, msgs, kind) ==
    /\ Pulls < MaxPulls
    /\ UNCHANGED <<buildVars, waitVars, restVars>>
    /\ \E res \in RecvResults(s, msgs) :
         LET st == AfterRecv(s, res)
         IN  IF res = EOF
             THEN /\ streams' = [streams EXCEPT ![s].stream = st]
                  /\ rets' = [rets EXCEPT ![s] = Ret(s, Nil, EOF, st)]
             ELSE IF res \in RecvErrors
             THEN /\ streams' = [streams EXCEPT ![s].stream = st,
                                                ![s].err = FromGRPCError(res)]
                  /\ rets' = [rets EXCEPT ![s] = Ret(s, Nil, FromGRPCError(res), st)]
             ELSE /\ streams' = [streams EXCEPT ![s].stream = st]
                  /\ rets' = [rets EXCEPT ![s] = Ret(s, fromProto(kind, res), Nil, st)]

\* a Next that stores every Recv error, the end of the stream included
StreamNextEOFTranslated(s, msgs, kind) ==
    /\ Pulls < MaxPulls
    /\ UNCHANGED <<buildVars, waitVars, restVars>>
    /\ IF streams[s].err # Nil
       THEN /\ rets' = [rets EXCEPT ![s] = Ret(s, Nil, streams[s].err, streams[s].stream)]
            /\ UNCHANGED streams
       ELSE \E res \in RecvResults(s, msgs) :
              LET st == AfterRecv(s, res)
              IN  IF res = EOF \/ res \in RecvErrors
                  THEN /\ streams' = [streams EXCEPT ![s].stream = st,
                                                     ![s].err = FromGRPCError(PlainErr("EOF"))]
                       /\ rets' = [rets EXCEPT ![s] =
                                      Ret(s, Nil, FromGRPCError(PlainErr("EOF")), st)]
                  ELSE /\ streams' = [streams EXCEPT ![s].stream = st]
                       /\ rets' = [rets EXCEPT ![s] = Ret(s, fromProto(kind, res), Nil, st)]

ChunkStreamNextNotSticky(s) == StreamNextNotSticky(s, Fragments, "chunk")

ChunkStreamNextEOFTranslated(s) == StreamNextEOFTranslated(s, Fragments, "chunk")

\* a Next whose stored error is shared by the ChunkStreams of the client
ChunkStreamNextSharedErr(s) ==
    /\ Pulls < MaxPulls
    /\ UNCHANGED <<buildVars, waitVars, restVars>>
    /\ IF streams[s].err # Nil
       THEN /\ rets' = [rets EXCEPT ![s] = Ret(s, Nil, streams[s].err, streams[s].stream)]
            /\ UNCHANGED streams
       ELSE \E res \in RecvResults(s, Fragments) :
              LET st == AfterRecv(s, res)
              IN  IF res = EOF
                  THEN /\ streams' = [streams EXCEPT ![s].stream = st]
                       /\ rets' = [rets EXCEPT ![s] = Ret(s, Nil, EOF, st)]
                  ELSE IF res \in RecvErrors
                  THEN /\ streams' =
                            [x \in StreamIds |->
                                IF x = s
                                THEN [stream |-> st, err |-> FromGRPCError(res)]
                                ELSE IF x \in ChunkIds
                                THEN [streams[x] EXCEPT !.err = FromGRPCError(res)]
                                ELSE streams[x]]
                       /\ rets' = [rets EXCEPT ![s] = Ret(s, Nil, FromGRPCError(res), st)]
                  ELSE /\ streams' = [streams EXCEPT ![s].stream = st]
                       /\ rets' = [rets EXCEPT ![s] = Ret(s, chunkFromProto(res), Nil, st)]

\* ChunkStream.Next
ChunkStreamNext(s) ==
    /\ s \in ChunkIds
    /\ StreamNext(s, Fragments, "chunk")

\* an Err that never reports
ErrResultNever(s) == Nil

\* what ChunkStream.Err returns: the stored error, nil for io.EOF
ErrResult(s) == IF streams[s].err = EOF THEN Nil ELSE streams[s].err

\* ChunkStream.Err
ChunkStreamErr(s) ==
    /\ call' = [op |-> "Err", s |-> s, result |-> ErrResult(s)]
    /\ UNCHANGED <<streamVars, buildVars, waitVars, builders, credVars, secVars>>

\* a Close that resets the stream's stored error
ChunkStreamCloseClearing(s) ==
    /\ call' = [op |-> "Close", s |-> s, result |-> Nil]
    /\ streams' = [streams EXCEPT ![s].err = Nil]
    /\ UNCHANGED <<rets, buildVars, waitVars, builders, credVars, secVars>>

\* ChunkStream.Close: returns nil and touches nothing
ChunkStreamClose(s) ==
    /\ call' = [op |-> "Close", s |-> s, result |-> Nil]
    /\ UNCHANGED <<streamVars, buildVars, waitVars, builders, credVars, secVars>>

\* SampleStream.Next
SampleStreamNext(s) ==
    /\ s \in SampleIds
    /\ StreamNext(s, Samples, "sample")

(***************************************************************************)
(* Claims about the streams                                                *)
(***************************************************************************)
\* C1: once Next has returned an error other than io.EOF on a ChunkStream or
\* SampleStream, every later Next on that stream returns that same error
\* value (and no chunk) and makes no further Recv on the transport.
C1_StickyError ==
    \A s \in StreamIds :
        \A i, j \in 1..Len(rets[s]) :
            (i < j /\ rets[s][i].err \notin {Nil, EOF})
                => /\ rets[s][j].err = rets[s][i].err
                   /\ rets[s][j].value = Nil
                   /\ rets[s][j].recvs = rets[s][i].recvs

\* a ChunkStream and a SampleStream each failed and were pulled twice more
C1_Witness ==
    \E c \in ChunkIds, s \in SampleIds :
        /\ Len(rets[c]) >= 3 /\ IsXaiError(rets[c][1].err)
        /\ Len(rets[s]) >= 1 /\ IsXaiError(rets[s][1].err)

\* the chunk the caller must see for raw fragment f: the first output only
ExpectedDelta(f) ==
    IF f.outputs[1].delta = Nil THEN "" ELSE f.outputs[1].delta.content

\* C2: when the transport delivers fragments f1..fn and then ends, the i-th
\* Next yields the chunk built from fi (same order, none dropped, duplicated
\* or merged), the (n+1)-th Next returns io.EOF, and so does every later one.
C2_OrderedThenEOF ==
    \A s \in ChunkIds :
        LET log == streams[s].stream.recvd
        IN  (\A i \in 1..Len(log) : log[i] \in Fragments \cup {EOF})
                => /\ Len(rets[s]) = Len(log)
                   /\ \A i \in 1..Len(log) :
                        IF log[i] \in Fragments
                        THEN /\ rets[s][i].err = Nil
                             /\ rets[s][i].value.ID = log[i].id
                             /\ rets[s][i].value.Model = log[i].model
                             /\ rets[s][i].value.Delta = ExpectedDelta(log[i])
                             /\ rets[s][i].value.FinishReason =
                                    finishReasonFromProto(log[i].outputs[1].finish_reason)
                        ELSE /\ rets[s][i].err = EOF
                             /\ rets[s][i].value = Nil
                             /\ \A j \in i..Len(log) : log[j] = EOF

\* two fragments, the end of the stream, and one more pull
C2_Witness ==
    \E s \in ChunkIds :
        /\ streams[s].stream.recvd = <<Frag1, Frag2, EOF, EOF>>
        /\ Len(rets[s]) = 4
        /\ rets[s][4].err = EOF

\* the raw fragment the i-th Next on s received and returned as a chunk
RawOf(s, i) == streams[s].stream.recvd[rets[s][i].recvs]

\* C16 (as claimed): when a stream delivers a fragment with tool call tc_1
\* pending and a part of its arguments, and later a fragment with tc_1
\* completed and all of its arguments, the ToolCallInfo observed for tc_1 with
\* the first fragment has been updated in place: it is Completed and carries
\* exactly the arguments of the second fragment.
C16_ReconciledInPlace ==
    \A s \in ChunkIds :
        \A i, j \in 1..Len(rets[s]) :
            (/\ i < j
             /\ rets[s][i].err = Nil
             /\ rets[s][j].err = Nil
             /\ RawOf(s, i) = ToolFrag1
             /\ RawOf(s, j) = ToolFrag2)
                => \A k \in 1..Len(rets[s][i].value.ToolCalls) :
                      LET info == rets[s][i].value.ToolCalls[k]
                      IN  info.ID = "tc_1"
                            => /\ info.Status = "ToolCallStatusCompleted"
                               /\ info.Function.Arguments = FullArguments

\* what a Next on stream s can return in the current state
NextResults(s) ==
    IF streams[s].err # Nil THEN {<<Nil, streams[s].err>>}
    ELSE {IF res = EOF THEN <<Nil, EOF>>
          ELSE IF res \in RecvErrors THEN <<Nil, FromGRPCError(res)>>
          ELSE <<chunkFromProto(res), Nil>> : res \in RecvResults(s, Fragments)}

\* C20: a call of Next, Err or Close on one ChunkStream leaves the other
\* ChunkStream of the client as it was: its stored error, its transport
\* stream, what it has returned, and what Next and Err return on it next.
C20_StreamsIndependent ==
    [][\A a \in ChunkIds :
          (\/ streams'[a] # streams[a]
           \/ rets'[a] # rets[a]
           \/ (call' # call /\ call'.s = a))
              => \A b \in ChunkIds \ {a} :
                    /\ streams'[b] = streams[b]
                    /\ rets'[b] = rets[b]
                    /\ ErrResult(b)' = ErrResult(b)
                    /\ NextResults(b)' = NextResults(b)]_vars

\* one stream failed and one ended; Err on the one that ended returns nil,
\* and both had delivered a chunk before
C20_Witness ==
    /\ IsXaiError(streams["chunk1"].err)
    /\ streams["chunk2"].stream.ended
    /\ streams["chunk2"].err = Nil
    /\ Len(rets["chunk1"]) = 2
    /\ Len(rets["chunk2"]) = 2
    /\ rets["chunk1"][1].err = Nil
    /\ rets["chunk2"][1].err = Nil
    /\ call.op = "Err"
    /\ call.s = "chunk2"
    /\ call.result = Nil

\* C24: Close returns nil in every state of the stream (open, failed or
\* ended, closed before or not) and changes nothing: the stored error, the
\* transport stream, and what Err and Next return afterwards are as before.
C24_CloseIdempotent ==
    [][\A a \in ChunkIds :
          (call'.op = "Close" /\ call' # call /\ call'.s = a)
              => /\ call'.result = Nil
                 /\ streams' = streams
                 /\ rets' = rets
                 /\ ErrResult(a)' = ErrResult(a)
                 /\ NextResults(a)' = NextResults(a)]_vars

\* Close returned nil on a stream that holds a stored error, while the
\* other stream has ended
C24_Witness ==
    /\ call.op = "Close"
    /\ call.s = "chunk1"
    /\ call.result = Nil
    /\ IsXaiError(streams["chunk1"].err)
    /\ Len(rets["chunk1"]) >= 2
    /\ rets["chunk1"][Len(rets["chunk1"])].err = streams["chunk1"].err
    /\ streams["chunk2"].stream.ended

\* the failure the Next calls on s have returned so far: nil when none has
LastFailure(s) ==
    IF \E i \in 1..Len(rets[s]) : IsXaiError(rets[s][i].err)
    THEN rets[s][CHOOSE i \in 1..Len(rets[s]) : IsXaiError(rets[s][i].err)].err
    ELSE Nil

\* C25: Err returns nil before any failure, also after Next has returned
\* io.EOF on a stream that never failed, and after Next has returned a
\* failure it returns that same error.
C25_ErrOnlyFailures ==
    [][\A a \in ChunkIds :
          (call'.op = "Err" /\ call' # call /\ call'.s = a)
              => /\ call'.result = LastFailure(a)
                 /\ call'.result # EOF]_vars

\* Err returned nil on a stream on which Next delivered a chunk and then
\* io.EOF, and the other stream has failed
C25_Witness ==
    /\ call.op = "Err"
    /\ call.s = "chunk1"
    /\ call.result = Nil
    /\ Len(rets["chunk1"]) = 2
    /\ rets["chunk1"][1].err = Nil
    /\ rets["chunk1"][2].err = EOF
    /\ IsXaiError(streams["chunk2"].err)

(***************************************************************************)
(* The ChatRequest builder and Build                                       *)
(***************************************************************************)
\* A Go slice header: the address of its backing array (0 for a nil slice)
\* and its length; its capacity is the length of the backing array.
NilSlice == [ptr |-> 0, len |-> 0]

Cap(h, s) == IF s.ptr = 0 THEN 0 ELSE Len(h[s.ptr])

\* the elements a holder of slice header s reads from heap h
Elems(h, s) == IF s.ptr = 0 THEN << >> ELSE SubSeq(h[s.ptr], 1, s.len)

\* an array cell beyond every slice's length
ZeroCell == [type |-> "zero"]

\* append(s, x), the heap after it: in place when capacity is left, else a
\* fresh array holding the old elements, x, and spare cells of capacity
AppendHeap(h, s, x, spare) ==
    IF s.len < Cap(h, s)
    THEN [h EXCEPT ![s.ptr][s.len + 1] = x]
    ELSE Append(h, Elems(h, s) \o <<x>> \o [i \in 1..spare |-> ZeroCell])

\* append(s, x), the slice header it returns
AppendSlice(h, s) ==
    IF s.len < Cap(h, s)
    THEN [s EXCEPT !.len = s.len + 1]
    ELSE [ptr |-> Len(h) + 1, len |-> s.len + 1]

\* &v1.Message{Role: role, Content: []*v1.Content{{Text: text}}}
TextMessage(role, text) == [Role |-> role, Content |-> <<[Text |-> text]>>]

\* the tools callers register, and Tool.toProto
FunctionTool(name) == [kind |-> "FunctionTool", Name |-> name]

WebSearchTool == [kind |-> "WebSearchTool"]

toolToProto(tool) ==
    IF tool.kind = "FunctionTool"
    THEN [Tool |-> "Tool_Function", Function |-> [Name |-> tool.Name]]
    ELSE [Tool |-> "Tool_WebSearch"]

\* the arguments the calls are made with
Texts == {"hi"}

Models == {"", "grok-3", "grok-4"}

DefaultModels == {"grok-3", "grok-4-fast"}

ResponseIds == {"", "resp-1", "resp-2"}

StopSequences == {<<"END">>}

Tools == {FunctionTool("get_weather"), WebSearchTool}

\* NewChatRequest: &ChatRequest{}
NewChatRequest ==
    [messages |-> NilSlice, model |-> "", stop |-> << >>, tools |-> << >>,
     storeMessages |-> FALSE, includeOptions |-> NilSlice,
     previousResponseID |-> ""]

Called(op, arg) == calls' = Append(calls, [op |-> op, arg |-> arg])

CanCall == Len(calls) < MaxCalls

\* r.messages = append(r.messages, msg)
AppendMessage(msg) ==
    \E spare \in 0..MaxSpare :
        /\ heap' = AppendHeap(heap, r.messages, msg, spare)
        /\ r' = [r EXCEPT !.messages = AppendSlice(heap, r.messages)]

\* r.includeOptions = append(r.includeOptions, opt)
AppendInclude(opt) ==
    \E spare \in 0..MaxSpare :
        /\ heap' = AppendHeap(heap, r.includeOptions, opt, spare)
        /\ r' = [r EXCEPT !.includeOptions = AppendSlice(heap, r.includeOptions)]

UserMessage(text) ==
    /\ CanCall
    /\ AppendMessage(TextMessage("ROLE_USER", text))
    /\ Called("UserMessage", text)
    /\ UNCHANGED <<built, streamVars, waitVars, restVars>>

AssistantMessage(text) ==
    /\ CanCall
    /\ AppendMessage(TextMessage("ROLE_ASSISTANT", text))
    /\ Called("AssistantMessage", text)
    /\ UNCHANGED <<built, streamVars, waitVars, restVars>>

WithModel(model) ==
    /\ CanCall
    /\ r' = [r EXCEPT !.model = model]
    /\ Called("WithModel", model)
    /\ UNCHANGED <<heap, built, streamVars, waitVars, restVars>>

WithStop(sequences) ==
    /\ CanCall
    /\ r' = [r EXCEPT !.stop = sequences]
    /\ Called("WithStop", sequences)
    /\ UNCHANGED <<heap, built, streamVars, waitVars, restVars>>

\* an AddTool that also resets the model
AddToolClearsModel(tool) ==
    /\ CanCall
    /\ r' = [r EXCEPT !.tools = Append(r.tools, tool), !.model = ""]
    /\ Called("AddTool", tool)
    /\ UNCHANGED <<heap, built, streamVars, waitVars, restVars>>

AddTool(tool) ==
    /\ CanCall
    /\ r' = [r EXCEPT !.tools = Append(r.tools, tool)]
    /\ Called("AddTool", tool)
    /\ UNCHANGED <<heap, built, streamVars, waitVars, restVars>>

WithStoreMessages(store) ==
    /\ CanCall
    /\ r' = [r EXCEPT !.storeMessages = store]
    /\ Called("WithStoreMessages", store)
    /\ UNCHANGED <<heap, built, streamVars, waitVars, restVars>>

WithPreviousResponseId(id) ==
    /\ CanCall
    /\ r' = [r EXCEPT !.previousResponseID = id]
    /\ Called("WithPreviousResponseId", id)
    /\ UNCHANGED <<heap, built, streamVars, waitVars, restVars>>

IncludeInlineCitations ==
    /\ CanCall
    /\ AppendInclude("INCLUDE_OPTION_INLINE_CITATIONS")
    /\ Called("IncludeInlineCitations", Nil)
    /\ UNCHANGED <<built, streamVars, waitVars, restVars>>

IncludeVerboseStreaming ==
    /\ CanCall
    /\ AppendInclude("INCLUDE_OPTION_VERBOSE_STREAMING")
    /\ Called("IncludeVerboseStreaming", Nil)
    /\ UNCHANGED <<built, streamVars, waitVars, restVars>>

\* &r.previousResponseID: a pointer to the builder's own field
AddrOfPreviousResponseID == [type |-> "ptr", to |-> "r.previousResponseID"]

\* a request whose model is the default whenever a default is given
buildRequestDefaultFirst(defaultModel) ==
    [Messages |-> r.messages,
     Model |-> IF defaultModel # "" THEN defaultModel ELSE r.model,
     Stop |-> r.stop,
     StoreMessages |-> r.storeMessages,
     Include |-> r.includeOptions,
     PreviousResponseId |->
         IF r.previousResponseID # "" THEN AddrOfPreviousResponseID ELSE Nil,
     Tools |-> [i \in 1..Len(r.tools) |-> toolToProto(r.tools[i])]]

\* a request that stores the messages whenever it continues a stored chain
buildRequestStoreWhenChained(defaultModel) ==
    [Messages |-> r.messages,
     Model |-> IF r.model = "" THEN defaultModel ELSE r.model,
     Stop |-> r.stop,
     StoreMessages |-> r.storeMessages \/ r.previousResponseID # "",
     Include |-> r.includeOptions,
     PreviousResponseId |->
         IF r.previousResponseID # "" THEN AddrOfPreviousResponseID ELSE Nil,
     Tools |-> [i \in 1..Len(r.tools) |-> toolToProto(r.tools[i])]]

\* the *v1.GetCompletionsRequest that Build assembles: the slice headers and
\* the pointer are copied as they are, the tools are converted into a new slice
buildRequest(defaultModel) ==
    [Messages |-> r.messages,
     Model |-> IF r.model = "" THEN defaultModel ELSE r.model,
     Stop |-> r.stop,
     StoreMessages |-> r.storeMessages,
     Include |-> r.includeOptions,
     PreviousResponseId |->
         IF r.previousResponseID # "" THEN AddrOfPreviousResponseID ELSE Nil,
     Tools |-> [i \in 1..Len(r.tools) |-> toolToProto(r.tools[i])]]

\* what a reader of request req finds in its fields, in a state with heap h
\* and builder b (GetMessages, GetModel, ..., GetPreviousResponseId)
View(h, b, req) ==
    [Messages |-> Elems(h, req.Messages),
     Model |-> req.Model,
     Stop |-> req.Stop,
     StoreMessages |-> req.StoreMessages,
     Include |-> Elems(h, req.Include),
     PreviousResponseId |->
         IF req.PreviousResponseId = Nil THEN "" ELSE b.previousResponseID,
     HasPreviousResponseId |-> req.PreviousResponseId # Nil,
     Tools |-> req.Tools]

\* one entry of built: the request, the default it was built with, the number
\* of builder calls made before, and its fields as read when Build returned
Built(req, defaultModel) ==
    [req |-> req, defaultModel |-> defaultModel, at |-> Len(calls),
     seen |-> View(heap, r, req)]

\* a Build that keeps the model it substituted in the builder
BuildStoresModel(defaultModel) ==
    /\ Len(built) < MaxBuilds
    /\ built' = Append(built, Built(buildRequest(defaultModel), defaultModel))
    /\ r' = [r EXCEPT !.model = IF r.model = "" THEN defaultModel ELSE r.model]
    /\ UNCHANGED <<heap, calls, streamVars, waitVars, restVars>>

Build(defaultModel) ==
    /\ Len(built) < MaxBuilds
    /\ built' = Append(built, Built(buildRequest(defaultModel), defaultModel))
    /\ UNCHANGED <<r, heap, calls, streamVars, waitVars, restVars>>

\* Number of builders made for the turns of one conversation.
MaxBuilders == 2

\* the next turn starts with a builder of its own: NewChatRequest() again,
\* and the calls counted from here on are the calls on that builder
NewTurn ==
    /\ builders < MaxBuilders
    /\ builders' = builders + 1
    /\ r' = NewChatRequest
    /\ calls' = << >>
    /\ UNCHANGED <<heap, built, call, streamVars, waitVars, credVars, secVars>>

(***************************************************************************)
(* Claims about the builder                                                *)
(***************************************************************************)
\* C3 (as claimed): a request returned by Build is never mutated afterwards:
\* whatever builder calls follow, every field of it, previous_response_id
\* included, reads as it did when Build returned.
C3_BuiltRequestNeverMutated ==
    \A i \in 1..Len(built) : View(heap, r, built[i].req) = built[i].seen

\* C3, the part the code keeps: every field other than previous_response_id
\* of a built request reads as it did when Build returned.
C3_OtherFieldsNeverMutated ==
    \A i \in 1..Len(built) :
        LET cur == View(heap, r, built[i].req)
            was == built[i].seen
        IN  /\ cur.Messages = was.Messages
            /\ cur.Model = was.Model
            /\ cur.Stop = was.Stop
            /\ cur.StoreMessages = was.StoreMessages
            /\ cur.Include = was.Include
            /\ cur.Tools = was.Tools

\* C4: Build is pure and idempotent: a Build step changes no field of the
\* builder (nor the arrays behind its slices), two requests built with the
\* same default and no builder call in between read field for field the
\* same, and the substituted default is not kept: with no model set, each
\* request carries the default of its own Build call.
C4_BuildPure ==
    [][built' # built =>
          /\ r' = r
          /\ heap' = heap
          /\ \A i, j \in 1..Len(built') :
                (built'[i].at = built'[j].at
                     /\ built'[i].defaultModel = built'[j].defaultModel)
                    => View(heap', r', built'[i].req) = View(heap', r', built'[j].req)
          /\ \A i \in 1..Len(built') :
                (\A k \in 1..built'[i].at : calls[k].op # "WithModel")
                    => built'[i].req.Model = built'[i].defaultModel]_vars

\* after two builder calls that set no model, Build was called twice with
\* the same default
C4_Witness ==
    /\ Len(built) = 2
    /\ Len(calls) = 2
    /\ built[1].at = 2
    /\ built[2].at = 2
    /\ built[1].defaultModel = built[2].defaultModel
    /\ built[1].req.Model = built[1].defaultModel
    /\ built[1].seen.Messages # << >>

\* the argument of the last WithModel among the first n builder calls, ""
\* when there is none
RECURSIVE LastModelSet(_)
LastModelSet(n) ==
    IF n = 0 THEN ""
    ELSE IF calls[n].op = "WithModel" THEN calls[n].arg
    ELSE LastModelSet(n - 1)

\* C5: the model of a built request is the default passed to Build when
\* WithModel was never called or last set the empty string, and otherwise the
\* last value WithModel set, whatever the default.
C5_ModelSelection ==
    \A i \in 1..Len(built) :
        LET last == LastModelSet(built[i].at)
        IN  built[i].req.Model = IF last = "" THEN built[i].defaultModel ELSE last

\* WithModel was called twice and Build then kept the second model against
\* a different default
C5_Witness ==
    /\ Len(built) >= 1
    /\ calls = <<[op |-> "WithModel", arg |-> "grok-3"],
                 [op |-> "WithModel", arg |-> "grok-4"]>>
    /\ built[1].at = 2
    /\ built[1].defaultModel = "grok-3"
    /\ built[1].req.Model = "grok-4"

\* the argument of the last WithStoreMessages among the first n calls on
\* the current builder, FALSE when there is none
RECURSIVE LastStoreMessages(_)
LastStoreMessages(n) ==
    IF n = 0 THEN FALSE
    ELSE IF calls[n].op = "WithStoreMessages" THEN calls[n].arg
    ELSE LastStoreMessages(n - 1)

\* C17: the store_messages of a request is the value last passed to
\* WithStoreMessages on the builder it is built from, false when there was
\* no such call, whatever previous_response_id is and whatever requests were
\* built before.
C17_StoreMessagesNotInherited ==
    [][built' # built
          => built'[Len(built')].req.StoreMessages = LastStoreMessages(Len(calls))]_vars

\* turn 1 was built with store_messages, turn 2 from a new builder that only
\* sets previous_response_id: its request does not store the messages
C17_Witness ==
    /\ builders = 2
    /\ Len(built) = 2
    /\ built[1].req.StoreMessages = TRUE
    /\ calls = <<[op |-> "WithPreviousResponseId", arg |-> "resp-1"]>>
    /\ built[2].req.PreviousResponseId # Nil
    /\ built[2].req.StoreMessages = FALSE

\* the field of the builder a call writes
FieldOf(op) ==
    CASE op \in {"UserMessage", "AssistantMessage"} -> "messages"
      [] op = "WithModel" -> "model"
      [] op = "WithStop" -> "stop"
      [] op = "AddTool" -> "tools"
      [] op = "WithStoreMessages" -> "storeMessages"
      [] op = "WithPreviousResponseId" -> "previousResponseID"
      [] op \in {"IncludeInlineCitations", "IncludeVerboseStreaming"} ->
            "includeOptions"

\* the builder after call c, with its slices read as sequences
ApplyCall(b, c) ==
    CASE c.op = "UserMessage" ->
            [b EXCEPT !.messages = Append(@, TextMessage("ROLE_USER", c.arg))]
      [] c.op = "AssistantMessage" ->
            [b EXCEPT !.messages = Append(@, TextMessage("ROLE_ASSISTANT", c.arg))]
      [] c.op = "WithModel" -> [b EXCEPT !.model = c.arg]
      [] c.op = "WithStop" -> [b EXCEPT !.stop = c.arg]
      [] c.op = "AddTool" -> [b EXCEPT !.tools = Append(@, c.arg)]
      [] c.op = "WithStoreMessages" -> [b EXCEPT !.storeMessages = c.arg]
      [] c.op = "WithPreviousResponseId" -> [b EXCEPT !.previousResponseID = c.arg]
      [] c.op = "IncludeInlineCitations" ->
            [b EXCEPT !.includeOptions = Append(@, "INCLUDE_OPTION_INLINE_CITATIONS")]
      [] c.op = "IncludeVerboseStreaming" ->
            [b EXCEPT !.includeOptions = Append(@, "INCLUDE_OPTION_VERBOSE_STREAMING")]

\* a new builder after the calls of seq, made in that order
RECURSIVE Replay(_)
Replay(seq) ==
    IF seq = << >>
    THEN [NewChatRequest EXCEPT !.messages = << >>, !.includeOptions = << >>]
    ELSE ApplyCall(Replay(SubSeq(seq, 1, Len(seq) - 1)), seq[Len(seq)])

\* what a reader finds in the request Build makes of builder b
BuildView(b, defaultModel) ==
    [Messages |-> b.messages,
     Model |-> IF b.model = "" THEN defaultModel ELSE b.model,
     Stop |-> b.stop,
     StoreMessages |-> b.storeMessages,
     Include |-> b.includeOptions,
     PreviousResponseId |-> b.previousResponseID,
     HasPreviousResponseId |-> b.previousResponseID # "",
     Tools |-> [i \in 1..Len(b.tools) |-> toolToProto(b.tools[i])]]

\* the orders in which n calls can be made
Perms(n) == {p \in [1..n -> 1..n] : \A i, j \in 1..n : p[i] = p[j] => i = j}

Permuted(seq, p) == [k \in 1..Len(seq) |-> seq[p[k]]]

\* p keeps the relative order of the message appends of seq
KeepsMessageOrder(seq, p) ==
    \A i, j \in 1..Len(seq) :
        (i < j /\ FieldOf(seq[p[i]].op) = "messages"
               /\ FieldOf(seq[p[j]].op) = "messages") => p[i] < p[j]

\* p keeps the relative order of the calls of seq that write the same field
KeepsFieldOrder(seq, p) ==
    \A i, j \in 1..Len(seq) :
        (i < j /\ FieldOf(seq[p[i]].op) = FieldOf(seq[p[j]].op)) => p[i] < p[j]

\* the calls made on the builder before the i-th Build
CallsBefore(i) == SubSeq(calls, 1, built[i].at)

\* C26 (as claimed): a built request reads the same as the request built
\* after the same calls made in any order that keeps the message appends in
\* their relative order, and its messages are in the order of their appends.
C26_ConfigOrderInsensitive ==
    \A i \in 1..Len(built) :
        \A p \in Perms(built[i].at) :
            KeepsMessageOrder(CallsBefore(i), p)
                => built[i].seen =
                       BuildView(Replay(Permuted(CallsBefore(i), p)),
                                 built[i].defaultModel)

\* C26 (amended): a built request reads the same as the request built after
\* the same calls made in any order that keeps the relative order of the
\* calls writing the same field (the message appends among them): calls on
\* different fields commute, the last call of a setter wins, and messages,
\* tools and include options are in the order of their calls.
C26_OrderInsensitiveAcrossFields ==
    \A i \in 1..Len(built) :
        \A p \in Perms(built[i].at) :
            KeepsFieldOrder(CallsBefore(i), p)
                => built[i].seen =
                       BuildView(Replay(Permuted(CallsBefore(i), p)),
                                 built[i].defaultModel)

\* a request built after WithModel and then a message append, which reads
\* the same as one built after the two calls in the other order
C26_Witness ==
    /\ Len(built) >= 1
    /\ built[1].at = 2
    /\ calls[1].op = "WithModel"
    /\ calls[1].arg = "grok-4"
    /\ calls[2].op = "UserMessage"
    /\ built[1].seen.Model = "grok-4"
    /\ Len(built[1].seen.Messages) = 1
    /\ \E p \in Perms(2) : p[1] = 2 /\ KeepsFieldOrder(CallsBefore(1), p)

(***************************************************************************)
(* Deferred completions: GetDeferred and WaitForDeferred                   *)
(***************************************************************************)
\* the raw v1.GetChatCompletionResponse a finished completion embeds
RawResponse ==
    [id |-> "resp-9", model |-> "grok",
     outputs |-> << [message |-> [content |-> "done"],
                     finish_reason |-> "REASON_STOP"] >>]

chatResponseFromProto(resp) ==
    LET base == [type |-> "ChatResponse", ID |-> resp.id, Model |-> resp.model,
                 Content |-> "", FinishReason |-> ""]
    IN  IF Len(resp.outputs) > 0
        THEN LET output == resp.outputs[1]
                 withReason ==
                     [base EXCEPT !.FinishReason =
                                      finishReasonFromProto(output.finish_reason)]
             IN  IF output.message # Nil
                 THEN [withReason EXCEPT !.Content = output.message.content]
                 ELSE withReason
        ELSE base

\* what the service can hold for a request id: v1.DeferredStatus and, when
\* DONE, the response (which the message allows to be absent)
RemotePending == [status |-> "PENDING", response |-> Nil]

RemoteUnset == [status |-> "INVALID_DEFERRED_STATUS", response |-> Nil]

RemoteTerminal ==
    {[status |-> "DONE", response |-> RawResponse],
     [status |-> "DONE", response |-> Nil],
     [status |-> "EXPIRED", response |-> Nil]}

\* the failures a GetDeferredCompletion call can report
PollErrors ==
    {StatusErr("Unavailable", "down"), StatusErr("Internal", "boom"),
     StatusErr("DataLoss", "lost"), StatusErr("DeadlineExceeded", "slow"),
     StatusErr("Canceled", "gone")}

\* &DeferredResponse{...}
DeferredResponse(status, response, error) ==
    [type |-> "DeferredResponse", Status |-> status, Response |-> response,
     Error |-> error]

\* GetDeferred, the result for a raw answer resp of the service (the switch
\* has no default: any other status leaves the zero value "")
getDeferredResult(resp) ==
    CASE resp.status = "PENDING" -> DeferredResponse("pending", Nil, "")
      [] resp.status = "DONE" ->
            DeferredResponse("completed",
                             IF resp.response # Nil
                             THEN chatResponseFromProto(resp.response)
                             ELSE Nil,
                             "")
      [] resp.status = "EXPIRED" ->
            DeferredResponse("failed", Nil, "deferred completion expired")
      [] OTHER -> DeferredResponse("", Nil, "")

\* a Failed completion reported under the kind of the loop's own deadline
failedErrorAsTimeout(resp) ==
    XaiError("ErrTimeout", "deferred completion failed: " \o resp.Error, Nil, "OK")

\* the error WaitForDeferred makes of a Failed completion
failedError(resp) ==
    XaiError("ErrServerError", "deferred completion failed: " \o resp.Error, Nil, "OK")

\* the loop's deadline reported under the kind of a Failed completion
timeoutErrorAsServerError ==
    XaiError("ErrServerError", "timeout waiting for deferred completion", Nil, "OK")

\* the error WaitForDeferred returns when its loop ends
timeoutError ==
    XaiError("ErrTimeout", "timeout waiting for deferred completion", Nil, "OK")

Return(resp, e, line) ==
    /\ pc' = "done"
    /\ ret' = [resp |-> resp, err |-> e]
    /\ returnedAt' = line

\* the call: deadline := time.Now().Add(timeout), with the service holding
\* the request as pending (or with no status yet)
CallWaitForDeferred(interval, timeout) ==
    /\ pc = "idle"
    /\ pc' = "loop"
    /\ deadline' = now + timeout
    /\ pollInterval' = interval
    /\ remote' \in {RemotePending, RemoteUnset}
    /\ UNCHANGED <<now, pollAt, timerAt, ctxErr, ctxDoneIn, polled, ret, returnedAt>>
    /\ UNCHANGED <<streamVars, buildVars, restVars>>

\* a loop that has no exit for the deadline: past it, it spins without polling
WaitLoopSpins ==
    /\ pc = "loop"
    /\ IF now < deadline
       THEN /\ pc' = "poll"
            /\ pollAt' = now
       ELSE UNCHANGED <<pc, pollAt>>
    /\ UNCHANGED <<now, deadline, pollInterval, timerAt, ctxErr, ctxDoneIn,
                   remote, polled, ret, returnedAt>>
    /\ UNCHANGED <<streamVars, buildVars, restVars>>

\* a loop that tests the deadline only after its first poll
WaitLoopPollsFirst ==
    /\ pc = "loop"
    /\ IF now < deadline \/ polled = << >>
       THEN /\ pc' = "poll"
            /\ pollAt' = now
            /\ UNCHANGED <<ret, returnedAt>>
       ELSE /\ Return(Nil, timeoutError, 342)
            /\ UNCHANGED pollAt
    /\ UNCHANGED <<now, deadline, pollInterval, timerAt, ctxErr, ctxDoneIn,
                   remote, polled>>
    /\ UNCHANGED <<streamVars, buildVars, restVars>>

\* the loop condition time.Now().Before(deadline): either the loop ends and
\* the Timeout error is returned, or GetDeferred is called
WaitLoop ==
    /\ pc = "loop"
    /\ IF now < deadline
       THEN /\ pc' = "poll"
            /\ pollAt' = now
            /\ UNCHANGED <<ret, returnedAt>>
       ELSE /\ Return(Nil, timeoutError, 342)
            /\ UNCHANGED pollAt
    /\ UNCHANGED <<now, deadline, pollInterval, timerAt, ctxErr, ctxDoneIn,
                   remote, polled>>
    /\ UNCHANGED <<streamVars, buildVars, restVars>>

\* a loop that polls again after a failed poll of kind ErrUnavailable
WaitPollFailsRetrying ==
    /\ pc = "poll"
    /\ \E e \in PollErrors :
         /\ polled' = Append(polled, FromGRPCError(e))
         /\ IF FromGRPCError(e).Code = "ErrUnavailable"
            THEN /\ pc' = "wait"
                 /\ timerAt' = now + pollInterval
                 /\ UNCHANGED <<ret, returnedAt>>
            ELSE /\ Return(Nil, FromGRPCError(e), 320)
                 /\ UNCHANGED timerAt
    /\ UNCHANGED <<now, deadline, pollInterval, pollAt, ctxErr, ctxDoneIn, remote>>
    /\ UNCHANGED <<streamVars, buildVars, restVars>>

\* GetDeferred fails: its translated error is returned as it is
WaitPollFails ==
    /\ pc = "poll"
    /\ \E e \in PollErrors :
         /\ polled' = Append(polled, FromGRPCError(e))
         /\ Return(Nil, FromGRPCError(e), 320)
    /\ UNCHANGED <<now, deadline, pollInterval, pollAt, timerAt, ctxErr,
                   ctxDoneIn, remote>>
    /\ UNCHANGED <<streamVars, buildVars, restVars>>

\* a loop whose switch has no case for a completed result
WaitPollSucceedsNoCompletedCase ==
    /\ pc = "poll"
    /\ LET resp == getDeferredResult(remote)
       IN  /\ polled' = Append(polled, resp)
           /\ CASE resp.Status = "failed" ->
                     /\ Return(Nil, failedError(resp), 327)
                     /\ UNCHANGED timerAt
                [] OTHER ->
                     /\ pc' = "wait"
                     /\ timerAt' = now + pollInterval
                     /\ UNCHANGED <<ret, returnedAt>>
    /\ UNCHANGED <<now, deadline, pollInterval, pollAt, ctxErr, ctxDoneIn, remote>>
    /\ UNCHANGED <<streamVars, buildVars, restVars>>

\* GetDeferred succeeds with what the service holds; the switch on the status
\* returns, or the select with a fresh timer is entered
WaitPollSucceeds ==
    /\ pc = "poll"
    /\ LET resp == getDeferredResult(remote)
       IN  /\ polled' = Append(polled, resp)
           /\ CASE resp.Status = "completed" ->
                     /\ Return(resp.Response, Nil, 325)
                     /\ UNCHANGED timerAt
                [] resp.Status = "failed" ->
                     /\ Return(Nil, failedError(resp), 327)
                     /\ UNCHANGED timerAt
                [] OTHER ->
                     /\ pc' = "wait"
                     /\ timerAt' = now + pollInterval
                     /\ UNCHANGED <<ret, returnedAt>>
    /\ UNCHANGED <<now, deadline, pollInterval, pollAt, ctxErr, ctxDoneIn, remote>>
    /\ UNCHANGED <<streamVars, buildVars, restVars>>

\* a select that has no case for ctx.Done()
selectBlockedIgnoringCtx == pc = "wait" /\ now < timerAt

\* the select of the inter-poll wait blocks while neither of its cases is
\* ready: the context is not done and the timer has not fired
selectBlocked == pc = "wait" /\ ctxErr = Nil /\ now < timerAt

\* case <-ctx.Done(): return nil, FromGRPCError(ctx.Err())
WaitCtxDone ==
    /\ pc = "wait"
    /\ ctxErr # Nil
    /\ Return(Nil, FromGRPCError(ctxErr), 336)
    /\ UNCHANGED <<now, deadline, pollInterval, pollAt, timerAt, ctxErr,
                   ctxDoneIn, remote, polled>>
    /\ UNCHANGED <<streamVars, buildVars, restVars>>

\* case <-time.After(pollInterval): continue polling
WaitTimerFires ==
    /\ pc = "wait"
    /\ now >= timerAt
    /\ pc' = "loop"
    /\ UNCHANGED <<now, deadline, pollInterval, pollAt, timerAt, ctxErr,
                   ctxDoneIn, remote, polled, ret, returnedAt>>
    /\ UNCHANGED <<streamVars, buildVars, restVars>>

\* The clock advances while a GetDeferred call is in flight and while the
\* select is blocked.
Tick ==
    /\ \/ pc = "poll" /\ now < pollAt + MaxPollTime
       \/ selectBlocked
    /\ now' = now + 1
    /\ UNCHANGED <<pc, deadline, pollInterval, pollAt, timerAt, ctxErr,
                   ctxDoneIn, remote, polled, ret, returnedAt>>
    /\ UNCHANGED <<streamVars, buildVars, restVars>>

\* The caller cancels the context, or the context's own deadline passes.
CtxDone ==
    /\ pc \in {"loop", "poll", "wait"}
    /\ ctxErr = Nil
    /\ ctxErr' \in {ContextCanceled, ContextDeadlineExceeded}
    /\ ctxDoneIn' = pc
    /\ UNCHANGED <<pc, now, deadline, pollInterval, pollAt, timerAt, remote,
                   polled, ret, returnedAt>>
    /\ UNCHANGED <<streamVars, buildVars, restVars>>

\* The service resolves the completion: once, to a terminal state.
RemoteResolves ==
    /\ pc \in {"loop", "poll", "wait"}
    /\ remote \notin RemoteTerminal
    /\ remote' \in RemoteTerminal
    /\ UNCHANGED <<pc, now, deadline, pollInterval, pollAt, timerAt, ctxErr,
                   ctxDoneIn, polled, ret, returnedAt>>
    /\ UNCHANGED <<streamVars, buildVars, restVars>>

(***************************************************************************)
(* Claims about WaitForDeferred                                            *)
(***************************************************************************)
IsPending(x) == x.type = "DeferredResponse" /\ x.Status = "pending"

AllPending(n) == \A j \in 1..n : IsPending(polled[j])

\* C6: when the polls report Pending k times in a row and the next poll
\* reports Completed with a response (which takes k*pollInterval < timeout),
\* WaitForDeferred returns that response and no error, having issued those
\* k+1 polls, and issues no poll after the one that observed Completed.
C6_SuccessPath ==
    \A i \in 1..Len(polled) :
        (/\ polled[i].type = "DeferredResponse"
         /\ polled[i].Status = "completed"
         /\ polled[i].Response # Nil
         /\ AllPending(i - 1))
            => /\ i = Len(polled)
               /\ pc = "done"
               /\ ret.err = Nil
               /\ ret.resp = polled[i].Response
               /\ ret.resp.ID = remote.response.id
               /\ ret.resp.Content = remote.response.outputs[1].message.content
               /\ (i - 1) * pollInterval < deadline

\* three Pending polls, then Completed, with pollInterval 1 and timeout 4
C6_Witness ==
    /\ pc = "done"
    /\ pollInterval = 1
    /\ deadline = 4
    /\ Len(polled) = 4
    /\ AllPending(3)
    /\ polled[4].type = "DeferredResponse"
    /\ polled[4].Status = "completed"
    /\ ret.err = Nil
    /\ ret.resp # Nil

\* C7: when every poll reported Pending and the caller's context was never
\* done, WaitForDeferred returns the Timeout error of its own deadline (kind
\* ErrTimeout), never an error of the kind of a Failed completion.
C7_TimeoutPath ==
    (pc = "done" /\ ctxErr = Nil /\ AllPending(Len(polled)))
        => /\ ret.resp = Nil
           /\ IsXaiError(ret.err)
           /\ ret.err.Code = "ErrTimeout"
           /\ ret.err.Code # "ErrServerError"
           /\ now >= deadline

\* pollInterval 1 and timeout 2: two Pending polls, then the Timeout error
C7_Witness ==
    /\ pc = "done"
    /\ pollInterval = 1
    /\ deadline = 2
    /\ ctxErr = Nil
    /\ Len(polled) = 2
    /\ AllPending(2)
    /\ ret.err.Code = "ErrTimeout"

LastPolled == polled[Len(polled)]

FailedObserved ==
    /\ pc = "done"
    /\ Len(polled) > 0
    /\ LastPolled.type = "DeferredResponse"
    /\ LastPolled.Status = "failed"

\* C8 (as claimed): a poll that reports Failed (EXPIRED) makes WaitForDeferred
\* return no response and a ServerError whose message carries the reason, and
\* neither its own Timeout nor the translated error of a failing poll has
\* that kind.
C8_FailedDistinctByKind ==
    /\ FailedObserved
         => /\ ret.resp = Nil
            /\ ret.err.Code = "ErrServerError"
            /\ ret.err.Message = "deferred completion failed: deferred completion expired"
    /\ (pc = "done" /\ returnedAt \in {320, 342}) => ret.err.Code # "ErrServerError"

\* C8 (amended): a poll that reports Failed (EXPIRED) makes WaitForDeferred
\* return no response and a ServerError without cause or transport code whose
\* message carries the reason; its own Timeout has another kind; the
\* translated error of a failing poll always carries its cause, and has the
\* kind ServerError exactly when the transport code is Internal or DataLoss.
C8_FailedServerError ==
    /\ FailedObserved
         => /\ remote.status = "EXPIRED"
            /\ returnedAt = 327
            /\ ret.resp = Nil
            /\ ret.err.Code = "ErrServerError"
            /\ ret.err.Message = "deferred completion failed: deferred completion expired"
            /\ ret.err.Cause = Nil
            /\ ret.err.GRPCCode = "OK"
    /\ (pc = "done" /\ returnedAt = 342) => ret.err.Code = "ErrTimeout"
    /\ (pc = "done" /\ returnedAt = 320)
         => /\ ret.err.Cause # Nil
            /\ ret.err.Code = "ErrServerError"
                   <=> ret.err.GRPCCode \in {"Internal", "DataLoss"}

\* a Pending poll, then the service reports the completion expired
C8_Witness ==
    /\ FailedObserved
    /\ Len(polled) = 2
    /\ IsPending(polled[1])
    /\ ret.err.Code = "ErrServerError"

\* C9 (as claimed): when the context is cancelled while WaitForDeferred is
\* in its inter-poll wait, the error it returns has kind ErrCanceled.
C9_CancelDuringWaitIsCanceled ==
    (pc = "done" /\ returnedAt = 336 /\ ctxDoneIn = "wait" /\ ctxErr = ContextCanceled)
        => ret.err.Code = "ErrCanceled"

\* C10: while the context is done and the interval of the inter-poll wait
\* has not elapsed, the only step WaitForDeferred takes is to return an
\* error: no time of the interval is waited out and no poll is issued.
C10_CancelPreemptsSleep ==
    [][(pc = "wait" /\ ctxErr # Nil /\ now < timerAt)
          => /\ ENABLED WaitCtxDone
             /\ now' = now
             /\ polled' = polled
             /\ pc' \in {"wait", "done"}
             /\ pc' = "done"
                  => /\ returnedAt' = 336
                     /\ ret'.resp = Nil
                     /\ IsXaiError(ret'.err)]_vars

\* WaitForDeferred returned from the wait with time of the interval left,
\* after the context became done during the wait
C10_Witness ==
    /\ pc = "done"
    /\ returnedAt = 336
    /\ ctxDoneIn = "wait"
    /\ now < timerAt
    /\ IsXaiError(ret.err)
    /\ Len(polled) >= 2

\* C22: a poll that fails is the last poll: WaitForDeferred returns at once,
\* without a response, the error GetDeferred returned, which is the
\* translation of the transport error with the kind the translator assigns,
\* also when that kind is retryable and the deadline has not passed.
C22_NoRetryOfFailedPoll ==
    \A i \in 1..Len(polled) :
        IsXaiError(polled[i])
            => /\ i = Len(polled)
               /\ pc = "done"
               /\ returnedAt = 320
               /\ ret.resp = Nil
               /\ ret.err = polled[i]
               /\ ret.err = FromGRPCError(ret.err.Cause)
               /\ ret.err.Code = codeOfStatus(ret.err.Cause.code)

\* a Pending poll, then a poll that fails with Unavailable while time
\* remains before the deadline
C22_Witness ==
    /\ pc = "done"
    /\ Len(polled) = 2
    /\ IsPending(polled[1])
    /\ IsXaiError(polled[2])
    /\ polled[2].Code = "ErrUnavailable"
    /\ now < deadline
    /\ ret.err = polled[2]

\* C27 (as claimed): when WaitForDeferred returns a nil error it returns a
\* response, also when the poll reported the completion done without an
\* embedded response.
C27_NilErrorHasResponse ==
    (pc = "done" /\ ret.err = Nil) => ret.resp # Nil

\* no poll has been started at or after the deadline, and with a timeout
\* that is not positive (the call is made at time 0) no poll is made at all
\* and the Timeout error is returned
PollsOnlyBeforeDeadline ==
    /\ (pc = "poll" \/ polled # << >>) => pollAt < deadline
    /\ (pc # "idle" /\ deadline <= 0)
         => /\ polled = << >>
            /\ pc \in {"loop", "done"}
            /\ pc = "done"
                 => /\ ret.resp = Nil
                    /\ ret.err = timeoutError
                    /\ ret.err.Code = "ErrTimeout"

\* the completion is not Completed although the deadline has passed
NotCompletedAtDeadline ==
    pc \in {"loop", "poll", "wait"} /\ now >= deadline /\ remote.status # "DONE"

\* C28 (as claimed): WaitForDeferred starts no poll at or after its deadline,
\* makes no poll and returns the Timeout error when the timeout is not
\* positive, and never returns a completion that became Completed only
\* after the deadline.
C28_NoPollNoResultAfterDeadline ==
    /\ []PollsOnlyBeforeDeadline
    /\ [](NotCompletedAtDeadline => [](ret.resp = Nil))

\* C28 (amended): WaitForDeferred starts no poll at or after its deadline,
\* makes no poll and returns the Timeout error when the timeout is not
\* positive, and a response it returns was observed by a poll started
\* before the deadline; that poll may return after the deadline.
C28_NoPollAfterDeadline ==
    /\ PollsOnlyBeforeDeadline
    /\ (pc = "done" /\ ret.resp # Nil)
         => /\ pollAt < deadline
            /\ returnedAt = 325
            /\ now <= pollAt + MaxPollTime

\* a poll started before the deadline returned after it with a response
C28_Witness ==
    /\ pc = "done"
    /\ ret.resp # Nil
    /\ ret.err = Nil
    /\ pollAt < deadline
    /\ now > deadline
    /\ Len(polled) >= 2

\* the polls made so far fit before the deadline at one interval apart
PollsBounded ==
    polled # << >> => (Len(polled) - 1) * pollInterval < deadline

\* WaitForDeferred has returned in one of its five ways: a Completed poll,
\* a Failed poll, a poll error, the context, or its own deadline
ReturnedOutcome ==
    /\ pc = "done"
    /\ \/ returnedAt = 325 /\ ret.err = Nil
       \/ returnedAt = 327 /\ ret.resp = Nil /\ ret.err.Code = "ErrServerError"
       \/ returnedAt = 320 /\ ret.resp = Nil /\ IsXaiError(ret.err)
       \/ returnedAt = 336 /\ ret.resp = Nil /\ IsXaiError(ret.err) /\ ctxErr # Nil
       \/ returnedAt = 342 /\ ret.resp = Nil /\ ret.err.Code = "ErrTimeout"

\* C29: when each poll returns and time advances, a WaitForDeferred call
\* with a positive poll interval returns, in one of its five ways, whatever
\* the service answers, and the polls it makes are at least one interval
\* apart and start before the deadline, so that their number is bounded.
C29_Terminates ==
    /\ [](pollInterval > 0 => PollsBounded)
    /\ [](pc = "done" => ReturnedOutcome)
    /\ (pc \in {"loop", "poll", "wait"}) ~> ReturnedOutcome

\* the service never resolved the completion and the context was never
\* done: after two Pending polls WaitForDeferred returned its Timeout error
C29_Witness ==
    /\ pc = "done"
    /\ returnedAt = 342
    /\ remote \in {RemotePending, RemoteUnset}
    /\ ctxErr = Nil
    /\ Len(polled) = 2
    /\ pollInterval = 2
    /\ deadline = 4

(***************************************************************************)
(* Errors: FromGRPCError, Error.IsRetryable, Error.Is                      *)
(***************************************************************************)
\* every value a codes.Code can take: the sixteen named failures, OK, and a
\* number the package codes gives no name
StatusCodes == GRPCCodes \cup {"OK", "Code(99)"}

Messages == {"", "test message"}

\* the errors FromGRPCError is called with
ErrorInputs ==
    {Nil, ContextCanceled, ContextDeadlineExceeded, PlainErr("plain error")}
        \cup {StatusErr(c, m) : c \in StatusCodes, m \in Messages}

\* time.Duration values of Error.RetryAfter, in seconds
RetryAfters == {0, 30}

\* the *Error values callers can hold: every combination of the fields
ErrorValues ==
    {[XaiError(c, m, cause, g) EXCEPT !.RetryAfter = d] :
        c \in ErrorCodes, m \in Messages, cause \in {Nil, PlainErr("plain error")},
        d \in RetryAfters, g \in {"OK", "Unavailable", "Internal"}}

\* ErrAuthSentinel ... ErrExhaustedSentinel: &Error{Code: c}
Sentinels == {XaiError(c, "", Nil, "OK") : c \in ErrorCodes \ {"ErrUnknown"}}

\* fmt.Errorf("%s: %w", message, err): an error that unwraps to err
Wrapped(err) == [type |-> "wrap", err |-> err]

\* the targets Is is called with
Targets ==
    ErrorValues \cup {Nil, PlainErr("plain error"), StatusErr("Internal", "boom")}
        \cup {Wrapped(t) : t \in Sentinels}

\* a retryability that also looks at RetryAfter
IsRetryableOrRetryAfter(e) ==
    e.Code \in {"ErrRateLimit", "ErrUnavailable", "ErrTimeout", "ErrServerError"}
        \/ e.RetryAfter > 0

IsRetryable(e) ==
    CASE e.Code \in {"ErrRateLimit", "ErrUnavailable", "ErrTimeout", "ErrServerError"}
            -> TRUE
      [] OTHER -> FALSE

\* errors.As(target, &t) for t of type *Error: the first *Error on target's
\* chain of Unwrap, Nil when there is none
RECURSIVE errorsAs(_)
errorsAs(target) ==
    IF target = Nil THEN Nil
    ELSE IF IsXaiError(target) THEN target
    ELSE IF target.type = "wrap" THEN errorsAs(target.err)
    ELSE Nil

\* a matching that compares the message too
IsByCodeAndMessage(e, target) ==
    LET t == errorsAs(target)
    IN  IF t # Nil THEN e.Code = t.Code /\ e.Message = t.Message ELSE FALSE

\* (e *Error) Is(target error)
Is(e, target) ==
    LET t == errorsAs(target)
    IN  IF t # Nil THEN e.Code = t.Code ELSE FALSE

\* each behaviour makes one call, with arguments drawn from the sets above
NotCalled == call.op = "none"

CallFromGRPCError(e) ==
    /\ call' = [op |-> "FromGRPCError", err |-> e, result |-> FromGRPCError(e)]
    /\ UNCHANGED <<streamVars, buildVars, waitVars, builders, credVars, secVars>>

CallIsRetryable(e) ==
    /\ call' = [op |-> "IsRetryable", e |-> e, result |-> IsRetryable(e)]
    /\ UNCHANGED <<streamVars, buildVars, waitVars, builders, credVars, secVars>>

CallIs(e, target) ==
    /\ call' = [op |-> "Is", e |-> e, target |-> target, result |-> Is(e, target)]
    /\ UNCHANGED <<streamVars, buildVars, waitVars, builders, credVars, secVars>>

(***************************************************************************)
(* Claims about the errors                                                 *)
(***************************************************************************)
\* the kind documented for a transport status code
DocumentedKind(c) ==
    CASE c \in {"Unauthenticated", "PermissionDenied"} -> "ErrAuth"
      [] c = "ResourceExhausted" -> "ErrRateLimit"
      [] c \in {"InvalidArgument", "FailedPrecondition", "OutOfRange",
                "Unimplemented"} -> "ErrInvalidRequest"
      [] c = "NotFound" -> "ErrNotFound"
      [] c \in {"Internal", "DataLoss"} -> "ErrServerError"
      [] c \in {"Unavailable", "Aborted"} -> "ErrUnavailable"
      [] c = "DeadlineExceeded" -> "ErrTimeout"
      [] c = "Canceled" -> "ErrCanceled"
      [] OTHER -> "ErrUnknown"

\* C11: FromGRPCError maps nil to nil, an error carrying a transport status
\* to the one kind documented for its code (Unknown for every code outside
\* the table), and every other error to Unknown: the result is a function of
\* the input, defined on every input.
C11_FromGRPCErrorTable ==
    call.op = "FromGRPCError"
        => /\ call.result = FromGRPCError(call.err)
           /\ (call.err = Nil) <=> (call.result = Nil)
           /\ call.err # Nil
                => /\ IsXaiError(call.result)
                   /\ call.result.Code \in ErrorCodes
                   /\ call.result.Cause = call.err
                   /\ call.result.Code =
                        IF call.err.type = "grpc.status"
                        THEN DocumentedKind(call.err.code)
                        ELSE "ErrUnknown"

\* a status Aborted was translated to Unavailable
C11_Witness ==
    /\ call.op = "FromGRPCError"
    /\ call.err = StatusErr("Aborted", "test message")
    /\ call.result.Code = "ErrUnavailable"
    /\ call.result.GRPCCode = "Aborted"

\* C12: IsRetryable is true exactly for the kinds RateLimit, Unavailable,
\* Timeout and ServerError, and false for Unknown, Auth, InvalidRequest,
\* NotFound, Canceled and ResourceExhausted, whatever the other fields hold.
C12_RetryableByKind ==
    call.op = "IsRetryable"
        => /\ call.result = TRUE
                <=> call.e.Code \in {"ErrRateLimit", "ErrUnavailable", "ErrTimeout",
                                     "ErrServerError"}
           /\ call.result = FALSE
                <=> call.e.Code \in {"ErrUnknown", "ErrAuth", "ErrInvalidRequest",
                                     "ErrNotFound", "ErrCanceled",
                                     "ErrResourceExhausted"}
           /\ \A x \in ErrorValues :
                x.Code = call.e.Code => IsRetryable(x) = call.result

\* a ResourceExhausted error that carries a retry-after, a cause and a
\* retryable transport code is not retryable
C12_Witness ==
    /\ call.op = "IsRetryable"
    /\ call.e.Code = "ErrResourceExhausted"
    /\ call.e.RetryAfter = 30
    /\ call.e.GRPCCode = "Unavailable"
    /\ call.e.Cause # Nil
    /\ call.result = FALSE

\* C13: for Error values e and t, e.Is(t) holds exactly when their kinds are
\* equal, whatever their other fields; so matching is reflexive, symmetric
\* and transitive, and e matches a sentinel exactly when the sentinel has
\* e's kind.
C13_IsByKind ==
    (call.op = "Is" /\ call.target \in ErrorValues)
        => LET e == call.e
               t == call.target
           IN  /\ call.result = (e.Code = t.Code)
               /\ Is(e, e)
               /\ Is(t, e) = call.result
               /\ \A u \in ErrorValues : (call.result /\ Is(t, u)) => Is(e, u)
               /\ \A x \in Sentinels : Is(e, x) = (x.Code = e.Code)

\* two errors of one kind that differ in every other field match
C13_Witness ==
    /\ call.op = "Is"
    /\ call.target \in ErrorValues
    /\ call.e.Code = "ErrAuth"
    /\ call.target.Code = "ErrAuth"
    /\ call.e.Message # call.target.Message
    /\ call.e.Cause # call.target.Cause
    /\ call.e.RetryAfter # call.target.RetryAfter
    /\ call.e.GRPCCode # call.target.GRPCCode
    /\ call.result = TRUE

(***************************************************************************)
(* Tool calls: the calls made and IsClientSideTool                         *)
(***************************************************************************)
\* Longest list of registered tools passed to IsClientSideTool.
MaxTools == 2

ToolCallIds == {"tc_1", "tc_2"}

FunctionNames == {"get_weather", "Get_Weather"}

ArgumentStrings == {"", "{\"a\":1}"}

\* the raw tool calls the service can send
RawToolCalls ==
    {RawToolCall(id, type, status, em, fn) :
        id \in ToolCallIds, type \in ToolCallTypes, status \in ToolCallStatuses,
        em \in {Nil, StringPtr(""), StringPtr("boom")},
        fn \in {Nil} \cup {RawFunction(n, a) : n \in FunctionNames, a \in ArgumentStrings}}

\* the tool calls a caller can observe in responses and chunks
ToolCallInfos == {toolCallFromProto(tc) : tc \in RawToolCalls}

\* the tools a caller can register
RegisteredTools == {FunctionTool(n) : n \in FunctionNames} \cup {WebSearchTool}

\* the lists of registered tools passed to IsClientSideTool
ToolLists == UNION {[1..n -> RegisteredTools] : n \in 0..MaxTools}

\* a check that also requires the call to be classified as client-side
IsClientSideToolOfClientType(toolCall, registeredTools) ==
    IF toolCall = Nil \/ toolCall.Function = Nil THEN FALSE
    ELSE /\ toolCall.Type = "ToolCallTypeClient"
         /\ \E i \in 1..Len(registeredTools) :
               /\ registeredTools[i].kind = "FunctionTool"
               /\ registeredTools[i].Name = toolCall.Function.Name

\* IsClientSideTool(call, registeredTools)
IsClientSideTool(toolCall, registeredTools) ==
    IF toolCall = Nil \/ toolCall.Function = Nil THEN FALSE
    ELSE \E i \in 1..Len(registeredTools) :
            /\ registeredTools[i].kind = "FunctionTool"
            /\ registeredTools[i].Name = toolCall.Function.Name

CallToolCallFromProto(tc) ==
    /\ call' = IF tc = Nil
               THEN [op |-> "toolCallFromProto", tc |-> tc,
                     result |-> toolCallFromProto(tc)]
               ELSE [op |-> "toolCallFromProto", tc |-> tc,
                     result |-> toolCallFromProto(tc),
                     isClientSide |-> IsClientSide(toolCallFromProto(tc)),
                     isServerSide |-> IsServerSide(toolCallFromProto(tc))]
    /\ UNCHANGED <<streamVars, buildVars, waitVars, builders, credVars, secVars>>

CallIsClientSideTool(toolCall, registeredTools) ==
    /\ call' = [op |-> "IsClientSideTool", toolCall |-> toolCall,
                registeredTools |-> registeredTools,
                result |-> IsClientSideTool(toolCall, registeredTools)]
    /\ UNCHANGED <<streamVars, buildVars, waitVars, builders, credVars, secVars>>

(***************************************************************************)
(* Claims about the tool calls                                             *)
(***************************************************************************)
\* C14: a raw tool call is classified by its kind tag alone: the six kinds
\* the service executes are ServerSide, the client-side kind and every
\* unset or unrecognized kind are ClientSide, and two raw calls of one kind
\* are classified alike whatever their id, status, error message and
\* function payload.
C14_ClassifiedByKindTag ==
    (call.op = "toolCallFromProto" /\ call.tc # Nil)
        => /\ call.isServerSide
                <=> call.tc.type \in
                        {"TOOL_CALL_TYPE_WEB_SEARCH_TOOL", "TOOL_CALL_TYPE_X_SEARCH_TOOL",
                         "TOOL_CALL_TYPE_CODE_EXECUTION_TOOL",
                         "TOOL_CALL_TYPE_COLLECTIONS_SEARCH_TOOL",
                         "TOOL_CALL_TYPE_ATTACHMENT_SEARCH_TOOL",
                         "TOOL_CALL_TYPE_MCP_TOOL"}
           /\ call.isClientSide <=> ~call.isServerSide
           /\ call.tc.type \in {"TOOL_CALL_TYPE_CLIENT_SIDE_TOOL",
                                "TOOL_CALL_TYPE_INVALID", "ToolCallType(99)"}
                => call.isClientSide
           /\ \A other \in RawToolCalls :
                other.type = call.tc.type
                    => toolCallFromProto(other).Type = call.result.Type

\* a failed call of an unrecognized kind, with an error message and a
\* function payload, was classified as client-side
C14_Witness ==
    /\ call.op = "toolCallFromProto"
    /\ call.tc # Nil
    /\ call.tc.type = "ToolCallType(99)"
    /\ call.tc.status = "TOOL_CALL_STATUS_FAILED"
    /\ call.tc.error_message # Nil
    /\ call.tc.function # Nil
    /\ call.isClientSide = TRUE
    /\ call.isServerSide = FALSE

\* C15: IsClientSideTool is true exactly when the call is not nil, carries a
\* function payload, and a registered tool of the Function variant has
\* exactly the call's function name; the type of the call plays no part.
C15_ClientSideToolByName ==
    call.op = "IsClientSideTool"
        => LET c == call.toolCall
               tools == call.registeredTools
               names == {tools[i].Name :
                            i \in {j \in 1..Len(tools) : tools[j].kind = "FunctionTool"}}
           IN  /\ call.result
                    <=> (c # Nil /\ c.Function # Nil /\ c.Function.Name \in names)
               /\ c = Nil => ~call.result
               /\ (c # Nil /\ c.Function = Nil) => ~call.result
               /\ names = {} => ~call.result
               /\ c # Nil
                    => \A other \in ToolCallInfos :
                          other.Function = c.Function
                              => IsClientSideTool(other, tools) = call.result

\* a call typed server-side whose function is registered matches, next to a
\* registered tool whose name differs only in case
C15_Witness ==
    /\ call.op = "IsClientSideTool"
    /\ call.toolCall # Nil
    /\ call.toolCall.Type = "ToolCallTypeServer"
    /\ call.toolCall.Function # Nil
    /\ call.toolCall.Function.Name = "get_weather"
    /\ call.registeredTools = <<WebSearchTool, FunctionTool("get_weather")>>
    /\ call.result = TRUE

(***************************************************************************)
(* The default timeout of the blocking operations: Client.withTimeout      *)
(***************************************************************************)
\* Latest deadline a caller's context carries, in clock units.
MaxDeadline == 4

\* Latest time at which an operation is called.
MaxNow == 2

\* Largest Timeout the client is configured with.
MaxClientTimeout == 2

\* a context without a deadline, and one whose Deadline() is d
NoDeadline == [has |-> FALSE]

Deadline(d) == [has |-> TRUE, at |-> d]

\* the contexts callers pass: without a deadline, or with one that may
\* already have passed
Contexts == {NoDeadline} \cup {Deadline(d) : d \in 0..MaxDeadline}

\* context.WithTimeout(parent, d) at time t: the deadline is t + d unless the
\* parent's is earlier
contextWithTimeout(parent, t, d) ==
    IF parent.has /\ parent.at < t + d THEN parent ELSE Deadline(t + d)

\* a withTimeout that always applies the client's timeout
withTimeoutAlways(ctx, t, timeout) == contextWithTimeout(ctx, t, timeout)

\* (c *Client) withTimeout(ctx), called at time t with c.config.Timeout
withTimeout(ctx, t, timeout) ==
    IF ctx.has THEN ctx ELSE contextWithTimeout(ctx, t, timeout)

\* the operations that wait for one answer of the service
BlockingOperations ==
    {"CompleteChat", "StartDeferred", "GetDeferred", "GetStoredCompletion",
     "DeleteStoredCompletion"}

\* ctx, cancel := c.withTimeout(ctx), and the transport call made with ctx
BlockingCall(op, ctx, t, timeout) ==
    /\ call' = [op |-> op, ctx |-> ctx, now |-> t, timeout |-> timeout,
                transportCtx |-> withTimeout(ctx, t, timeout)]
    /\ UNCHANGED <<streamVars, buildVars, waitVars, builders, credVars, secVars>>

\* C18: a blocking operation makes its transport call under the caller's
\* own context, deadline unchanged, when that context has a deadline, and
\* otherwise under a deadline of the client's Timeout from the time of the
\* call.
C18_DefaultTimeoutAttached ==
    call.op \in BlockingOperations
        => /\ call.ctx.has => call.transportCtx = call.ctx
           /\ ~call.ctx.has
                => /\ call.transportCtx.has
                   /\ call.transportCtx.at = call.now + call.timeout

\* GetDeferred called with a deadline later than the client's timeout would
\* give: the call runs under the caller's deadline
C18_Witness ==
    /\ call.op = "GetDeferred"
    /\ call.ctx.has
    /\ call.ctx.at > call.now + call.timeout
    /\ call.transportCtx = call.ctx

(***************************************************************************)
(* The credential: bearerAuth.GetRequestMetadata against Close             *)
(***************************************************************************)
\* Number of goroutines that call GetRequestMetadata.
MaxCallers == 3

Callers == 1..MaxCallers

\* the keys a client is configured with; validation refuses an empty one
APIKeys == {"xai-key-1", "xai-key-2", "xai-key-3"}

\* what stands for a nil *SecureString where a key is chosen
NilKey == "<nil>"

\* (s *SecureString) IsZero(), under the read lock: apiKey is the pointer
\* b.apiKey, in state "nil" when it is nil; value holds the bytes as a
\* string, a nil slice and an empty one both being ""
IsZero(s) == s.state = "nil" \/ s.value = ""

\* (s *SecureString) Value(), under the read lock
Value(s) == IF s.value = "" THEN "" ELSE s.value

\* &bearerAuth{apiKey: cfg.APIKey}: the key is a SecureString, or nil for a
\* bearerAuth made without one
NewBearerAuth(k) ==
    /\ apiKey.state = "unmade"
    /\ apiKey' = IF k = NilKey THEN [state |-> "nil", value |-> ""]
                 ELSE [state |-> "set", value |-> k]
    /\ UNCHANGED <<authPc, authRet, call, builders, streamVars, buildVars,
                   waitVars, secVars>>

\* Client.Close: c.config.APIKey.Close() zeroes the bytes and sets value to
\* nil, all under the write lock
ClientClose ==
    /\ apiKey.state = "set"
    /\ apiKey' = [apiKey EXCEPT !.value = ""]
    /\ UNCHANGED <<authPc, authRet, call, builders, streamVars, buildVars,
                   waitVars, secVars>>

\* GetRequestMetadata, first half: b.apiKey == nil || b.apiKey.IsZero(); the
\* read lock is released when IsZero returns
GetRequestMetadataCheck(g) ==
    /\ apiKey.state # "unmade"
    /\ authPc[g] = "idle"
    /\ IF IsZero(apiKey)
       THEN /\ authPc' = [authPc EXCEPT ![g] = "done"]
            /\ authRet' = [authRet EXCEPT ![g] =
                   [md |-> Nil,
                    err |-> [Code |-> "ErrAuth",
                             Message |-> "API key is not set or has been closed"]]]
       ELSE /\ authPc' = [authPc EXCEPT ![g] = "checked"]
            /\ UNCHANGED authRet
    /\ UNCHANGED <<apiKey, call, builders, streamVars, buildVars, waitVars,
                   secVars>>

\* GetRequestMetadata, second half: "Bearer " + b.apiKey.Value(), which takes
\* the read lock again
GetRequestMetadataValue(g) ==
    /\ authPc[g] = "checked"
    /\ authPc' = [authPc EXCEPT ![g] = "done"]
    /\ authRet' = [authRet EXCEPT ![g] =
           [md |-> [authorization |-> "Bearer " \o Value(apiKey)], err |-> Nil]]
    /\ UNCHANGED <<apiKey, call, builders, streamVars, buildVars, waitVars,
                   secVars>>

\* C19: a GetRequestMetadata call that has returned either failed with an
\* Auth error and no metadata, or succeeded with the header "Bearer <key>"
\* of a complete configured key; it never succeeded with an empty or
\* cleared key, whatever Close did meanwhile.
C19_NeverEmptyCredential ==
    \A g \in Callers :
        authPc[g] = "done"
            => \/ /\ authRet[g].err # Nil
                  /\ authRet[g].err.Code = "ErrAuth"
                  /\ authRet[g].md = Nil
               \/ /\ authRet[g].err = Nil
                  /\ authRet[g].md.authorization
                        \in {"Bearer " \o k : k \in APIKeys}

(***************************************************************************)
(* The operations of the client at the transport boundary                  *)
(***************************************************************************)
\* the failures a transport call can report to an operation
TransportErrors == ErrorInputs \ {Nil}

\* the operations that make one transport call and translate its error
Operations ==
    {"CompleteChat", "StreamChat", "StartDeferred", "GetStoredCompletion",
     "DeleteStoredCompletion"}

\* the raw v1.DeferredStatus values an answer can carry, the unset one and
\* one the client does not know included
RawStatuses ==
    {"INVALID_DEFERRED_STATUS", "PENDING", "DONE", "EXPIRED", "DeferredStatus(7)"}

\* the answers of GetDeferredCompletion
RawAnswers ==
    {[status |-> st, response |-> resp] :
        st \in RawStatuses, resp \in {Nil, RawResponse}}

\* what an operation returns beside the error when the transport call succeeds
operationValue(op) ==
    CASE op \in {"CompleteChat", "GetStoredCompletion"} ->
            chatResponseFromProto(RawResponse)
      [] op = "StreamChat" -> NewStream
      [] op = "StartDeferred" -> StringPtr("req-1")
      [] OTHER -> Nil

\* CompleteChat, StreamChat, StartDeferred, GetStoredCompletion and
\* DeleteStoredCompletion: the transport call returns res (nil on success);
\* a failure is returned as FromGRPCError(res)
Operation(op, res) ==
    /\ call' = [op |-> op, raw |-> res,
                value |-> IF res = Nil THEN operationValue(op) ELSE Nil,
                err |-> FromGRPCError(res)]
    /\ UNCHANGED <<streamVars, buildVars, waitVars, builders, credVars, secVars>>

\* GetDeferred: the transport call fails with res, or succeeds with answer
GetDeferred(res, answer) ==
    /\ call' = [op |-> "GetDeferred", raw |-> res, answer |-> answer,
                value |-> IF res = Nil THEN getDeferredResult(answer) ELSE Nil,
                err |-> FromGRPCError(res)]
    /\ UNCHANGED <<streamVars, buildVars, waitVars, builders, credVars, secVars>>

\* an *Error whose kind is one of the taxonomy
Translated(e) == IsXaiError(e) /\ e.Code \in ErrorCodes

\* C21: every non-nil error returned by CompleteChat, StreamChat,
\* StartDeferred, GetDeferred, GetStoredCompletion, DeleteStoredCompletion
\* and WaitForDeferred, and every error other than io.EOF returned by
\* ChunkStream.Next, is an *Error with a kind of the taxonomy, and a failed
\* transport call is never reported as a success.
C21_NoRawErrorEscapes ==
    /\ call.op \in Operations \cup {"GetDeferred"}
         => /\ call.err # Nil => Translated(call.err)
            /\ call.raw # Nil => call.err # Nil
    /\ pc = "done" => (ret.err # Nil => Translated(ret.err))
    /\ \A s \in ChunkIds :
         \A i \in 1..Len(rets[s]) :
            rets[s][i].err \notin {Nil, EOF} => Translated(rets[s][i].err)

\* Recv failed with an error that carries no transport status, and Next
\* returned it translated
C21_Witness ==
    \E s \in ChunkIds :
        /\ Len(rets[s]) >= 2
        /\ rets[s][1].err = Nil
        /\ IsXaiError(rets[s][2].err)
        /\ rets[s][2].err.Code = "ErrUnknown"
        /\ rets[s][2].err.Cause = PlainErr("broken pipe")

\* the documented statuses of a DeferredResponse
DeferredStatuses == {"pending", "completed", "failed"}

\* C23 (as claimed): every GetDeferred call that succeeds, and every
\* successful poll of WaitForDeferred, returns a DeferredResponse whose status
\* is Pending, Completed or Failed, whatever raw status the service reported.
C23_StatusInEnum ==
    /\ (call.op = "GetDeferred" /\ call.err = Nil)
         => call.value.Status \in DeferredStatuses
    /\ \A i \in 1..Len(polled) :
         polled[i].type = "DeferredResponse"
            => polled[i].Status \in DeferredStatuses

(***************************************************************************)
(* SecureString: Value, Len, IsZero, Redacted and Close under its RWMutex  *)
(***************************************************************************)
\* Number of goroutines that each make one call on the SecureString.
MaxGoroutines == 3

Goroutines == 1..MaxGoroutines

\* the secrets, as the bytes of []byte(value): one shorter than the 12 bytes
\* Redacted shows a part of, and one of 12 bytes; no byte of them is 0
ShortSecret == <<115, 107>>

LongSecret == <<115, 107, 95, 116, 101, 115, 116, 95, 49, 50, 51, 52>>

Secrets == {ShortSecret, LongSecret}

ReadOps == {"Value", "Len", "IsZero", "Redacted"}

SecureOps == ReadOps \cup {"Close"}

\* a goroutine that has not called yet
IdleCall == [pc |-> "idle"]

\* Close has returned in some goroutine
CloseReturned ==
    \E h \in Goroutines : secCalls[h].pc = "done" /\ secCalls[h].op = "Close"

\* what a reading method returns for the bytes it finds: string(s.value) for
\* Value ("" when value is nil), len(s.value), len(s.value) == 0, and the
\* first and last four bytes around "****" for Redacted
readResult(op, s) ==
    CASE op = "Value" -> IF s.isNil THEN << >> ELSE s.value
      [] op = "Len" -> Len(s.value)
      [] op = "IsZero" -> Len(s.value) = 0
      [] op = "Redacted" ->
            IF Len(s.value) < 12
            THEN [head |-> << >>, tail |-> << >>]
            ELSE [head |-> SubSeq(s.value, 1, 4),
                  tail |-> SubSeq(s.value, Len(s.value) - 3, Len(s.value))]

\* NewSecureString(value)
NewSecureString(v) ==
    /\ ~secure.made
    /\ secure' = [made |-> TRUE, value |-> v, isNil |-> FALSE, writer |-> 0,
                  readers |-> {}]
    /\ UNCHANGED <<secCalls, call, builders, credVars, streamVars, buildVars,
                   waitVars>>

\* goroutine g calls method op; whether a Close had returned by then is kept
\* with the call
SecureCall(g, op) ==
    /\ secure.made
    /\ secCalls[g].pc = "idle"
    /\ secCalls' = [secCalls EXCEPT ![g] =
           [pc |-> "lock", op |-> op, afterClose |-> CloseReturned]]
    /\ UNCHANGED <<secure, call, builders, credVars, streamVars, buildVars,
                   waitVars>>

\* a reader that does not wait for the writer to unlock
RLockNoWait(g) ==
    /\ secCalls[g].pc = "lock"
    /\ secCalls[g].op \in ReadOps
    /\ secure' = [secure EXCEPT !.readers = @ \cup {g}]
    /\ secCalls' = [secCalls EXCEPT ![g].pc = "read"]
    /\ UNCHANGED <<call, builders, credVars, streamVars, buildVars, waitVars>>

\* s.mu.RLock(): granted while no writer holds the lock
RLock(g) ==
    /\ secCalls[g].pc = "lock"
    /\ secCalls[g].op \in ReadOps
    /\ secure.writer = 0
    /\ secure' = [secure EXCEPT !.readers = @ \cup {g}]
    /\ secCalls' = [secCalls EXCEPT ![g].pc = "read"]
    /\ UNCHANGED <<call, builders, credVars, streamVars, buildVars, waitVars>>

\* the body of Value, Len, IsZero or Redacted, and the deferred RUnlock
SecureRead(g) ==
    /\ secCalls[g].pc = "read"
    /\ secCalls' = [secCalls EXCEPT ![g] =
           [pc |-> "done", op |-> secCalls[g].op,
            afterClose |-> secCalls[g].afterClose,
            result |-> readResult(secCalls[g].op, secure)]]
    /\ secure' = [secure EXCEPT !.readers = @ \ {g}]
    /\ UNCHANGED <<call, builders, credVars, streamVars, buildVars, waitVars>>

\* s.mu.Lock() of Close: granted while nobody holds the lock
CloseLock(g) ==
    /\ secCalls[g].pc = "lock"
    /\ secCalls[g].op = "Close"
    /\ secure.writer = 0
    /\ secure.readers = {}
    /\ secure' = [secure EXCEPT !.writer = g]
    /\ secCalls' = [secCalls EXCEPT ![g] =
           [pc |-> "zero", op |-> "Close", afterClose |-> secCalls[g].afterClose,
            i |-> 1]]
    /\ UNCHANGED <<call, builders, credVars, streamVars, buildVars, waitVars>>

\* one pass of for i := range s.value { s.value[i] = 0 }; after the last,
\* s.value = nil, the deferred Unlock, and the return. With value nil
\* already, Close only unlocks.
CloseZero(g) ==
    /\ secCalls[g].pc = "zero"
    /\ IF ~secure.isNil /\ secCalls[g].i <= Len(secure.value)
       THEN /\ secure' = [secure EXCEPT !.value[secCalls[g].i] = 0]
            /\ secCalls' = [secCalls EXCEPT ![g].i = @ + 1]
       ELSE /\ secure' = [secure EXCEPT !.value = << >>, !.isNil = TRUE,
                                        !.writer = 0]
            /\ secCalls' = [secCalls EXCEPT ![g] =
                   [pc |-> "done", op |-> "Close",
                    afterClose |-> secCalls[g].afterClose]]
    /\ UNCHANGED <<call, builders, credVars, streamVars, buildVars, waitVars>>

\* what Redacted returns for a whole secret
RedactedOf(v) == readResult("Redacted", [value |-> v, isNil |-> FALSE])

\* C30: under every interleaving of Value, Len, IsZero, Redacted and Close,
\* a reading method returns what it would for the whole secret or for the
\* closed one, never for partly zeroed bytes, and a call made after a Close
\* has returned finds it closed: Value returns "", Len 0, IsZero true and
\* Redacted "****", also when Close is called again.
C30_ReadsAtomicWithClose ==
    \A g \in Goroutines :
        (secCalls[g].pc = "done" /\ secCalls[g].op \in ReadOps)
            => LET c == secCalls[g]
               IN  /\ c.op = "Value" => c.result \in Secrets \cup {<< >>}
                   /\ c.op = "Len" => c.result \in {Len(v) : v \in Secrets} \cup {0}
                   /\ c.op = "Redacted"
                        => c.result \in {RedactedOf(v) : v \in Secrets \cup {<< >>}}
                   /\ c.afterClose
                        => /\ c.op = "Value" => c.result = << >>
                           /\ c.op = "Len" => c.result = 0
                           /\ c.op = "IsZero" => c.result = TRUE
                           /\ c.op = "Redacted" => c.result = RedactedOf(<< >>)

\* Close of the long secret is between two of its bytes while a Value call
\* waits for the lock, and a Value call made before has returned the secret
C30_Witness ==
    \E g, h, k \in Goroutines :
        /\ secCalls[g].pc = "zero"
        /\ secCalls[g].i = 7
        /\ secure.value[1] = 0
        /\ secure.value[12] = 52
        /\ secCalls[h].pc = "lock"
        /\ secCalls[h].op = "Value"
        /\ secCalls[k].pc = "done"
        /\ secCalls[k].op = "Value"
        /\ secCalls[k].result = LongSecret

(***************************************************************************)
(* Specifications                                                          *)
(***************************************************************************)
Init ==
    /\ streams = [s \in StreamIds |-> NewStream]
    /\ rets = [s \in StreamIds |-> << >>]
    /\ r = NewChatRequest
    /\ heap = << >>
    /\ built = << >>
    /\ calls = << >>
    /\ pc = "idle"
    /\ now = 0
    /\ deadline = 0
    /\ pollInterval = 0
    /\ pollAt = 0
    /\ timerAt = 0
    /\ ctxErr = Nil
    /\ ctxDoneIn = ""
    /\ remote = RemotePending
    /\ polled = << >>
    /\ ret = [resp |-> Nil, err |-> Nil]
    /\ returnedAt = 0
    /\ call = [op |-> "none"]
    /\ builders = 1
    /\ apiKey = [state |-> "unmade", value |-> ""]
    /\ authPc = [g \in Callers |-> "idle"]
    /\ authRet = [g \in Callers |-> Nil]
    /\ secure = [made |-> FALSE, value |-> << >>, isNil |-> TRUE, writer |-> 0,
                 readers |-> {}]
    /\ secCalls = [g \in Goroutines |-> IdleCall]

NextStream ==
    \/ \E s \in ChunkIds : ChunkStreamNext(s)
    \/ \E s \in SampleIds : SampleStreamNext(s)

SpecStream == Init /\ [][NextStream]_vars

\* the two ChunkStreams of one client, with every call a caller can make
NextStreamPair ==
    \/ \E s \in ChunkIds : ChunkStreamNext(s)
    \/ \E s \in ChunkIds : ChunkStreamErr(s)
    \/ \E s \in ChunkIds : ChunkStreamClose(s)

SpecStreamPair == Init /\ [][NextStreamPair]_vars

NextBuild ==
    \/ \E text \in Texts : UserMessage(text)
    \/ \E text \in Texts : AssistantMessage(text)
    \/ \E model \in Models : WithModel(model)
    \/ \E sequences \in StopSequences : WithStop(sequences)
    \/ \E tool \in Tools : AddTool(tool)
    \/ \E store \in BOOLEAN : WithStoreMessages(store)
    \/ \E id \in ResponseIds : WithPreviousResponseId(id)
    \/ IncludeInlineCitations
    \/ IncludeVerboseStreaming
    \/ \E defaultModel \in DefaultModels : Build(defaultModel)

SpecBuild == Init /\ [][NextBuild]_vars

\* the turns of a conversation chained by previous_response_id
NextTurns ==
    \/ NewTurn
    \/ \E store \in BOOLEAN : WithStoreMessages(store)
    \/ \E id \in ResponseIds : WithPreviousResponseId(id)
    \/ \E defaultModel \in {"grok-3"} : Build(defaultModel)

SpecTurns == Init /\ [][NextTurns]_vars

\* message appends, setters that overwrite and setters that append, and Build
NextOrder ==
    \/ \E text \in Texts : UserMessage(text)
    \/ \E text \in Texts : AssistantMessage(text)
    \/ \E model \in Models : WithModel(model)
    \/ \E tool \in Tools : AddTool(tool)
    \/ \E store \in BOOLEAN : WithStoreMessages(store)
    \/ IncludeInlineCitations
    \/ IncludeVerboseStreaming
    \/ \E defaultModel \in {"grok-3"} : Build(defaultModel)

SpecOrder == Init /\ [][NextOrder]_vars

NextWait ==
    \/ \E interval \in 1..MaxInterval, timeout \in -1..MaxTimeout :
          CallWaitForDeferred(interval, timeout)
    \/ WaitLoop
    \/ WaitPollFails
    \/ WaitPollSucceeds
    \/ WaitCtxDone
    \/ WaitTimerFires
    \/ Tick
    \/ CtxDone
    \/ RemoteResolves

SpecWait == Init /\ [][NextWait]_vars

\* WaitForDeferred keeps running, each poll returns, the select takes a case
\* that is ready, and time advances while a poll or the select is waiting
SpecWaitLive ==
    /\ SpecWait
    /\ WF_vars(WaitLoop)
    /\ WF_vars(WaitPollFails \/ WaitPollSucceeds)
    /\ WF_vars(WaitCtxDone \/ WaitTimerFires)
    /\ WF_vars(Tick)

NextErrors ==
    \/ NotCalled /\ \E e \in ErrorInputs : CallFromGRPCError(e)
    \/ NotCalled /\ \E e \in ErrorValues : CallIsRetryable(e)
    \/ NotCalled /\ \E e \in ErrorValues, target \in Targets : CallIs(e, target)

SpecErrors == Init /\ [][NextErrors]_vars

NextTools ==
    \/ NotCalled /\ \E tc \in RawToolCalls \cup {Nil} : CallToolCallFromProto(tc)
    \/ NotCalled /\ \E toolCall \in ToolCallInfos \cup {Nil}, registeredTools \in ToolLists :
                      CallIsClientSideTool(toolCall, registeredTools)

SpecTools == Init /\ [][NextTools]_vars

NextTimeout ==
    NotCalled /\ \E op \in BlockingOperations, ctx \in Contexts, t \in 0..MaxNow,
                     timeout \in 1..MaxClientTimeout :
                    BlockingCall(op, ctx, t, timeout)

SpecTimeout == Init /\ [][NextTimeout]_vars

NextCredential ==
    \/ \E k \in APIKeys \cup {NilKey} : NewBearerAuth(k)
    \/ ClientClose
    \/ \E g \in Callers : GetRequestMetadataCheck(g)
    \/ \E g \in Callers : GetRequestMetadataValue(g)

SpecCredential == Init /\ [][NextCredential]_vars

NextSecure ==
    \/ \E v \in Secrets : NewSecureString(v)
    \/ \E g \in Goroutines, op \in SecureOps : SecureCall(g, op)
    \/ \E g \in Goroutines : RLock(g)
    \/ \E g \in Goroutines : SecureRead(g)
    \/ \E g \in Goroutines : CloseLock(g)
    \/ \E g \in Goroutines : CloseZero(g)

SpecSecure == Init /\ [][NextSecure]_vars

\* one use of the client per behaviour: a single operation, one
\* WaitForDeferred, or pulls on its ChunkStreams
NextBoundary ==
    \/ NotCalled /\ pc = "idle" /\ Pulls = 0
          /\ \E op \in Operations, res \in {Nil} \cup TransportErrors :
                Operation(op, res)
    \/ NotCalled /\ pc = "idle" /\ Pulls = 0
          /\ \E res \in {Nil} \cup TransportErrors, answer \in RawAnswers :
                GetDeferred(res, answer)
    \/ NotCalled /\ Pulls = 0 /\ NextWait
    \/ NotCalled /\ pc = "idle" /\ \E s \in ChunkIds : ChunkStreamNext(s)

SpecBoundary == Init /\ [][NextBoundary]_vars

====
